---- MODULE Spec2Model ----
(***************************************************************************)
(* A model of gtree: the descendant-list parser (parse.go) and the layout  *)
(* of a descendant chart (descendant.go, layout.go).                       *)
(*                                                                         *)
(* Parser.Parse is modelled as the state machine of its two loops: the     *)
(* scan loop that turns physical lines into entries, and the build loop    *)
(* that turns the entries into the person/family tree using the stack ppl. *)
(* Parser.parseDetails is a pure function and is modelled as an operator   *)
(* over strings, which are sequences of one-character strings.             *)
(* DescendantChart.Layout is modelled as the state machine of its steps:   *)
(* the tree walk addPerson and the loops of                                *)
(* SpreadingDescendantArranger.Arrange, on charts of a few persons.        *)
(***************************************************************************)
EXTENDS Integers, Sequences, FiniteSets, TLC

(***************************************************************************)
(* Bounds of the model.                                                    *)
(***************************************************************************)
MaxLines == 4

MaxGen == 3

MaxLen == 6

(***************************************************************************)
(* Strings.  Go slices are 0-based and half open; Slice(s, lo, hi) is      *)
(* s[lo:hi] and SliceFrom(s, lo) is s[lo:].                                *)
(***************************************************************************)
Slice(s, lo, hi) == SubSeq(s, lo + 1, hi)

SliceFrom(s, lo) == SubSeq(s, lo + 1, Len(s))

IsSpace(c) == c = " "

RECURSIVE TrimLeft(_)
TrimLeft(s) ==
  IF s # <<>> /\ IsSpace(s[1]) THEN TrimLeft(Tail(s)) ELSE s

RECURSIVE TrimRight(_)
TrimRight(s) ==
  IF s # <<>> /\ IsSpace(s[Len(s)]) THEN TrimRight(SubSeq(s, 1, Len(s) - 1)) ELSE s

TrimSpace(s) == TrimRight(TrimLeft(s))

\* strings.IndexByte: 0-based index of the first c in s, or -1
IndexByte(s, c) ==
  IF \E i \in 1..Len(s) : s[i] = c
  THEN (CHOOSE i \in 1..Len(s) : s[i] = c /\ \A j \in 1..(i - 1) : s[j] # c) - 1
  ELSE -1

\* strings.LastIndexByte: 0-based index of the last c in s, or -1
LastIndexByte(s, c) ==
  IF \E i \in 1..Len(s) : s[i] = c
  THEN (CHOOSE i \in 1..Len(s) : s[i] = c /\ \A j \in (i + 1)..Len(s) : s[j] # c) - 1
  ELSE -1

\* strings.HasPrefix / strings.HasSuffix with a one-byte pattern
HasPrefix(s, c) == Len(s) >= 1 /\ s[1] = c

HasSuffix(s, c) == Len(s) >= 1 /\ s[Len(s)] = c

\* strings.Split(s, sep) with a one-byte separator: never empty, Split("") = [""]
RECURSIVE Split(_, _)
Split(s, sep) ==
  LET i == IndexByte(s, sep)
  IN IF i = -1 THEN <<s>>
     ELSE <<Slice(s, 0, i)>> \o Split(SliceFrom(s, i + 1), sep)

TrimEach(ls) == [i \in 1..Len(ls) |-> TrimSpace(ls[i])]

(***************************************************************************)
(* parseDetails.  A result is [Headings, Details, Tags, panicked]; panicked *)
(* records a run-time panic of a slice expression with low > high.          *)
(***************************************************************************)
Panic == [Headings |-> <<>>, Details |-> <<>>, Tags |-> <<>>, panicked |-> TRUE]

\* the value of the variable parsed before parseDetails has returned
NotParsed == [Headings |-> <<>>, Details |-> <<>>, Tags |-> <<>>, panicked |-> FALSE]

\* the closure maybeSplitName: the heading lines, or the panic of
\* name[sl+1 : len(name)-1] when the only slash of the name is its last byte
maybeSplitName(surnameSeparateLine, name0) ==
  LET name == TrimSpace(name0)
      sl == IndexByte(name, "/")
      sp == LastIndexByte(name, " ")
  IN IF ~surnameSeparateLine THEN [lines |-> <<name>>, panicked |-> FALSE]
     ELSE IF HasSuffix(name, "/") /\ sl # -1
     THEN IF sl + 1 > Len(name) - 1
          THEN [lines |-> <<>>, panicked |-> TRUE]
          ELSE [lines |-> <<TrimSpace(Slice(name, 0, sl)), Slice(name, sl + 1, Len(name) - 1)>>,
                panicked |-> FALSE]
     ELSE IF sp = -1 THEN [lines |-> <<name>>, panicked |-> FALSE]
     ELSE [lines |-> <<TrimSpace(Slice(name, 0, sp)), SliceFrom(name, sp)>>, panicked |-> FALSE]

\* the tail of cleanLines, after name and detail have been settled
cleanLinesSplit(surnameSeparateLine, name0, detail0, tags) ==
  LET detail == IF HasPrefix(detail0, "(") /\ HasSuffix(detail0, ")")
                THEN Slice(detail0, 1, Len(detail0) - 1)
                ELSE detail0
      lines == TrimEach(Split(detail, ";"))
      name == TrimSpace(name0)
      hd == maybeSplitName(surnameSeparateLine, name)
  IN IF name = <<>>
     THEN [Headings |-> <<>>, Details |-> lines, Tags |-> tags, panicked |-> FALSE]
     ELSE IF hd.panicked THEN Panic
     ELSE [Headings |-> hd.lines, Details |-> lines, Tags |-> tags, panicked |-> FALSE]

\* the closure cleanLines
cleanLines(surnameSeparateLine, name, detail, tags) ==
  IF name # <<>> /\ detail = <<>>
  THEN LET br == IndexByte(name, "(")
           hd == maybeSplitName(surnameSeparateLine, name)
       IN IF br = -1
          THEN IF hd.panicked THEN Panic
               ELSE [Headings |-> hd.lines, Details |-> <<>>, Tags |-> tags, panicked |-> FALSE]
          ELSE cleanLinesSplit(surnameSeparateLine, Slice(name, 0, br), SliceFrom(name, br), tags)
  ELSE cleanLinesSplit(surnameSeparateLine, name, detail, tags)

\* the loop that looks for the parenthesis closing the one at pos
RECURSIVE findClose(_, _, _)
findClose(s, cl, open) ==
  IF cl >= Len(s) THEN [cl |-> cl, open |-> open]
  ELSE IF s[cl + 1] = "(" THEN findClose(s, cl + 1, open + 1)
  ELSE IF s[cl + 1] = ")"
       THEN IF open - 1 = 0 THEN [cl |-> cl, open |-> 0]
            ELSE findClose(s, cl + 1, open - 1)
  ELSE findClose(s, cl + 1, open)

\* the word loop of parseDetails: one call is one evaluation of "for sp != -1"
RECURSIVE scanWords(_, _, _, _, _, _)
scanWords(ssl, s, pos0, sp, nametext, tags) ==
  IF sp = -1
  THEN cleanLines(ssl, IF nametext = <<>> THEN s ELSE nametext, <<>>, tags)
  ELSE LET pos == pos0 + sp + 1
           rest == SliceFrom(s, pos)
           nm == IF nametext = <<>> THEN Slice(s, 0, pos - 1) ELSE nametext
           sp2 == IndexByte(rest, " ")
       IN IF HasPrefix(rest, "#")
          THEN IF sp2 = -1
               THEN cleanLines(ssl, IF nm = <<>> THEN s ELSE nm, <<>>,
                               Append(tags, SliceFrom(s, pos + 1)))
               ELSE scanWords(ssl, s, pos, sp2, nm, Append(tags, Slice(s, pos + 1, pos + sp2)))
          ELSE IF HasPrefix(rest, "(")
          THEN LET m == findClose(s, pos + 1, 1)
                   detailtext == IF m.open = 0 THEN Slice(s, pos + 1, m.cl) ELSE <<>>
               IN cleanLines(ssl, nm, detailtext, tags)
          ELSE scanWords(ssl, s, pos, sp2, nametext, tags)

parseDetails(ssl, s0) ==
  LET s == TrimSpace(s0)
  IN IF HasPrefix(s, "(")
     THEN cleanLines(ssl, <<>>, s, <<>>)
     ELSE scanWords(ssl, s, 0, IndexByte(s, " "), <<>>, <<>>)

(***************************************************************************)
(* State of one call of Parser.Parse, and of one call of parseDetails.     *)
(***************************************************************************)
VARIABLES
  SurnameSeparateLine, \* Parser.SurnameSeparateLine
  pc,                  \* "scan", "build", "done", "panic"; "details", "parsed";
                       \* during Layout the step of the call that comes next
  lineno,              \* the scan loop's line counter
  entries,             \* the slice entries
  cur,                 \* index in entries of the entry cur points to, 0 for nil
  persons,             \* persons[id] is the DescendantPerson with that ID
  idx,                 \* position of the build loop in entries
  ppl,                 \* the stack ppl, as indexes into entries
  Root,                \* lin.Root: a person ID, 0 for nil
  ret,                 \* what Parse returned: [chart, err]
  text,                \* argument of the parseDetails call under study
  parsed,              \* its result
  input,               \* the physical lines the scanner has returned so far
  chart,               \* the DescendantChart that Layout is called on
  opts,                \* the LayoutOptions of the call, l.opts
  l,                   \* the DescendantLayout the call in progress is building
  heap,                \* number of Blurbs allocated so far
  layouts,             \* the layouts that calls of Layout have returned so far
  arranger             \* the local variables of IteratedDescendantArranger's methods

vars == <<SurnameSeparateLine, pc, lineno, entries, cur, persons, idx, ppl, Root, ret,
          text, parsed, input, chart, opts, l, heap, layouts, arranger>>

layoutVars == <<chart, opts, l, heap, layouts, arranger>>

\* no chart has been laid out
NoLayout ==
  /\ chart = [Title |-> <<>>, Notes |-> <<>>, Root |-> 0, persons |-> <<>>]
  /\ opts = <<>>
  /\ l = <<>>
  /\ heap = 0
  /\ layouts = <<>>
  /\ arranger = <<>>

NoErr == [kind |-> "nil", line |-> 0, expected |-> 0, got |-> 0]

Err(kind, line) == [kind |-> kind, line |-> line, expected |-> 0, got |-> 0]

NotReturned == [chart |-> "none", err |-> NoErr]

(***************************************************************************)
(* Physical lines, after strings.TrimRightFunc and reLine: a blank line, a *)
(* line reLine does not match, a generation line, a generation line whose  *)
(* digits strconv.Atoi rejects, and a spouse line.                         *)
(***************************************************************************)
\* Generation numbers of the input lines.  A generation number 0 is left out:
\* as first entry it is rejected like 2, later it empties the stack like 1.
Generations == 1..MaxGen

\* Numbers of leading white-space characters of the input lines
Indents == {0, 1, 2}

EntryTexts == {<<"b">>}

ContTexts == {<<"b">>}

BlankLine == [kind |-> "blank", indent |-> 0, generation |-> 0, text |-> <<>>]

Lines ==
  {BlankLine}
  \cup [kind : {"other"}, indent : {0}, generation : {0}, text : ContTexts]
  \cup [kind : {"gen"}, indent : Indents, generation : Generations, text : EntryTexts]
  \cup [kind : {"sp"}, indent : Indents, generation : {0}, text : EntryTexts]
  \cup [kind : {"badgen"}, indent : {0}, generation : {0}, text : EntryTexts]

Init ==
  /\ SurnameSeparateLine = FALSE
  /\ pc = "scan"
  /\ lineno = 0
  /\ entries = <<>>
  /\ cur = 0
  /\ persons = <<>>
  /\ idx = 0
  /\ ppl = <<>>
  /\ Root = 0
  /\ ret = NotReturned
  /\ text = <<>>
  /\ parsed = NotParsed
  /\ input = <<>>
  /\ NoLayout

\* newPerson with the line number for the entry count, as the doc comment has it
newPersonByLine(id, d) ==
  [ID |-> lineno + 1, Headings |-> d.Headings, Details |-> d.Details, Tags |-> d.Tags,
   Families |-> <<>>]

newPerson(id, d) ==
  [ID |-> id, Headings |-> d.Headings, Details |-> d.Details, Tags |-> d.Tags,
   Families |-> <<>>]

\* newEntry with the line counter read before "lineno++"
newEntryStaleLine(line, d) ==
  [lineno |-> lineno, indent |-> line.indent, text |-> TrimSpace(line.text),
   isSpouse |-> line.kind = "sp",
   generation |-> IF line.kind = "gen" THEN line.generation ELSE 0,
   person |-> Len(entries) + 1]

newEntry(line, d) ==
  [lineno |-> lineno + 1, indent |-> line.indent, text |-> TrimSpace(line.text),
   isSpouse |-> line.kind = "sp",
   generation |-> IF line.kind = "gen" THEN line.generation ELSE 0,
   person |-> Len(entries) + 1]

\* one iteration of "for s.Scan()" on a blank line
ScanBlank ==
  /\ pc = "scan" /\ lineno < MaxLines
  /\ lineno' = lineno + 1
  /\ input' = Append(input, BlankLine)
  /\ UNCHANGED <<SurnameSeparateLine, pc, entries, cur, persons, idx, ppl, Root, ret,
                 text, parsed>>
  /\ UNCHANGED layoutVars

\* one iteration on a line that reLine matches
ScanEntry ==
  /\ pc = "scan" /\ lineno < MaxLines
  /\ \E line \in Lines :
       /\ line.kind \in {"gen", "sp", "badgen"}
       /\ input' = Append(input, line)
       /\ LET d == parseDetails(SurnameSeparateLine, TrimSpace(line.text))
          IN IF d.panicked
             THEN /\ pc' = "panic"
                  /\ lineno' = lineno + 1
                  /\ UNCHANGED <<entries, cur, persons, ret>>
             ELSE IF line.kind = "badgen"
             THEN /\ pc' = "done"
                  /\ lineno' = lineno + 1
                  /\ ret' = [chart |-> "nil", err |-> Err("malformed generation number", lineno + 1)]
                  /\ UNCHANGED <<entries, cur, persons>>
             ELSE /\ lineno' = lineno + 1
                  /\ entries' = Append(entries, newEntry(line, d))
                  /\ persons' = Append(persons, newPerson(Len(entries) + 1, d))
                  /\ cur' = Len(entries) + 1
                  /\ UNCHANGED <<pc, ret>>
  /\ UNCHANGED <<SurnameSeparateLine, idx, ppl, Root, text, parsed>>
  /\ UNCHANGED layoutVars

\* one iteration on a non-blank line that reLine does not match
ScanOther ==
  /\ pc = "scan" /\ lineno < MaxLines
  /\ \E line \in Lines :
       /\ line.kind = "other"
       /\ input' = Append(input, line)
       /\ lineno' = lineno + 1
       /\ IF cur = 0
          THEN /\ pc' = "done"
               /\ ret' = [chart |-> "nil", err |-> Err("malformed entry", lineno + 1)]
               /\ UNCHANGED entries
          ELSE /\ entries' = [entries EXCEPT ![cur].text = @ \o <<" ">> \o TrimSpace(line.text)]
               /\ UNCHANGED <<pc, ret>>
  /\ UNCHANGED <<SurnameSeparateLine, cur, persons, idx, ppl, Root, text, parsed>>
  /\ UNCHANGED layoutVars

\* s.Scan() returns false with s.Err() != nil
ScanFail ==
  /\ pc = "scan"
  /\ pc' = "done"
  /\ ret' = [chart |-> "nil", err |-> Err("read", 0)]
  /\ UNCHANGED <<SurnameSeparateLine, lineno, entries, cur, persons, idx, ppl, Root,
                 text, parsed, input>>
  /\ UNCHANGED layoutVars

\* s.Scan() returns false at the end of the input; lin is allocated
ScanEnd ==
  /\ pc = "scan"
  /\ pc' = "build"
  /\ idx' = 1
  /\ UNCHANGED <<SurnameSeparateLine, lineno, entries, cur, persons, ppl, Root, ret,
                 text, parsed, input>>
  /\ UNCHANGED layoutVars

(***************************************************************************)
(* The build loop: "for _, e := range entries".                            *)
(***************************************************************************)
Top(st) == st[Len(st)]

Pop(st) == SubSeq(st, 1, Len(st) - 1)

\* popIndent with "<=" for "<": entries of equal indent are popped too
RECURSIVE popIndentEqual(_, _)
popIndentEqual(st, indent) ==
  IF st = <<>> THEN <<>>
  ELSE IF indent <= entries[Top(st)].indent THEN popIndentEqual(Pop(st), indent)
  ELSE st

\* "for e.indent < prev.indent && len(ppl) > 0": the stack left by the loop,
\* <<>> when the loop emptied the stack and Parse returned the indent error
RECURSIVE popIndent(_, _)
popIndent(st, indent) ==
  IF st = <<>> THEN <<>>
  ELSE IF indent < entries[Top(st)].indent THEN popIndent(Pop(st), indent)
  ELSE st

\* popGeneration with "<" for "<=": a sibling of the stack top is not popped
RECURSIVE popGenerationStrict(_, _)
popGenerationStrict(st, generation) ==
  IF st = <<>> THEN <<>>
  ELSE IF generation < entries[Top(st)].generation
       THEN popGenerationStrict(Pop(st), generation)
  ELSE st

\* "for e.generation <= prev.generation && len(ppl) > 0": likewise
RECURSIVE popGeneration(_, _)
popGeneration(st, generation) ==
  IF st = <<>> THEN <<>>
  ELSE IF generation <= entries[Top(st)].generation THEN popGeneration(Pop(st), generation)
  ELSE st

\* addSpouse that puts the new family before the others
addSpouseInFront(ps, prev, other) ==
  [ps EXCEPT ![prev].Families =
     <<[Other |-> other, Details |-> <<>>, Children |-> <<>>]>> \o @]

\* "start a family": prev.person.Families = append(prev.person.Families, fam)
addSpouse(ps, prev, other) ==
  [ps EXCEPT ![prev].Families =
     Append(@, [Other |-> other, Details |-> <<>>, Children |-> <<>>])]

\* addChild with Families[0] for Families[len-1]
addChildFirstFamily(ps, prev, child) ==
  IF Len(ps[prev].Families) = 0
  THEN [ps EXCEPT ![prev].Families =
          Append(@, [Other |-> 0, Details |-> <<>>, Children |-> <<child>>])]
  ELSE [ps EXCEPT ![prev].Families[1].Children = Append(@, child)]

\* "child": a new first family, or one more child of the last family
addChild(ps, prev, child) ==
  IF Len(ps[prev].Families) = 0
  THEN [ps EXCEPT ![prev].Families =
          Append(@, [Other |-> 0, Details |-> <<>>, Children |-> <<child>>])]
  ELSE [ps EXCEPT ![prev].Families[Len(ps[prev].Families)].Children = Append(@, child)]

Fail(err) ==
  /\ pc' = "done"
  /\ ret' = [chart |-> "nil", err |-> err]
  /\ UNCHANGED <<idx, ppl, persons, Root>>

\* BuildFirst without "if e.generation != 1"
BuildFirstAnyGeneration ==
  /\ pc = "build" /\ idx <= Len(entries) /\ Len(ppl) = 0
  /\ LET e == entries[idx]
     IN IF e.isSpouse THEN Fail(Err("spouse encountered before first person", e.lineno))
        ELSE /\ Root' = IF Root = 0 THEN e.person ELSE Root
             /\ ppl' = Append(ppl, idx)
             /\ idx' = idx + 1
             /\ UNCHANGED <<pc, ret, persons>>
  /\ UNCHANGED <<SurnameSeparateLine, lineno, entries, cur, text, parsed, input>>
  /\ UNCHANGED layoutVars

\* the loop body with len(ppl) == 0
BuildFirst ==
  /\ pc = "build" /\ idx <= Len(entries) /\ Len(ppl) = 0
  /\ LET e == entries[idx]
     IN IF e.isSpouse THEN Fail(Err("spouse encountered before first person", e.lineno))
        ELSE IF e.generation # 1
        THEN Fail(Err("first person must have generation number 1", e.lineno))
        ELSE /\ Root' = IF Root = 0 THEN e.person ELSE Root
             /\ ppl' = Append(ppl, idx)
             /\ idx' = idx + 1
             /\ UNCHANGED <<pc, ret, persons>>
  /\ UNCHANGED <<SurnameSeparateLine, lineno, entries, cur, text, parsed, input>>
  /\ UNCHANGED layoutVars

\* the loop body with len(ppl) > 0 and e.isSpouse
BuildSpouse ==
  /\ pc = "build" /\ idx <= Len(entries) /\ Len(ppl) > 0
  /\ entries[idx].isSpouse
  /\ LET e == entries[idx]
         st == popIndent(ppl, e.indent)
     IN IF st = <<>> THEN Fail(Err("invalid person indent", e.lineno))
        ELSE /\ persons' = addSpouse(persons, entries[Top(st)].person, e.person)
             /\ ppl' = st
             /\ idx' = idx + 1
             /\ UNCHANGED <<pc, ret, Root>>
  /\ UNCHANGED <<SurnameSeparateLine, lineno, entries, cur, text, parsed, input>>
  /\ UNCHANGED layoutVars

\* the loop body with len(ppl) > 0 and a generation line
BuildPerson ==
  /\ pc = "build" /\ idx <= Len(entries) /\ Len(ppl) > 0
  /\ ~entries[idx].isSpouse
  /\ LET e == entries[idx]
         st == popGeneration(ppl, e.generation)
     IN IF st = <<>> THEN Fail(Err("invalid person generation number", e.lineno))
        ELSE IF e.generation = entries[Top(st)].generation + 1
        THEN /\ persons' = addChild(persons, entries[Top(st)].person, e.person)
             /\ ppl' = Append(st, idx)
             /\ idx' = idx + 1
             /\ UNCHANGED <<pc, ret, Root>>
        ELSE Fail([kind |-> "expected person with generation number", line |-> e.lineno,
                   expected |-> e.generation + 1, got |-> e.generation])
  /\ UNCHANGED <<SurnameSeparateLine, lineno, entries, cur, text, parsed, input>>
  /\ UNCHANGED layoutVars

\* "return lin, nil"
BuildEnd ==
  /\ pc = "build" /\ idx > Len(entries)
  /\ pc' = "done"
  /\ ret' = [chart |-> "lin", err |-> NoErr]
  /\ UNCHANGED <<SurnameSeparateLine, lineno, entries, cur, persons, idx, ppl, Root,
                 text, parsed, input>>
  /\ UNCHANGED layoutVars

Next ==
  \/ ScanBlank
  \/ ScanEntry
  \/ ScanOther
  \/ ScanFail
  \/ ScanEnd
  \/ BuildFirst
  \/ BuildSpouse
  \/ BuildPerson
  \/ BuildEnd

Spec == Init /\ [][Next]_vars

(***************************************************************************)
(* One call of parseDetails on an arbitrary string over Alphabet.          *)
(***************************************************************************)
Alphabet == {"b", ".", " ", "(", ")", ";", "#", "/"}

InitDetails ==
  /\ SurnameSeparateLine \in BOOLEAN
  /\ pc = "details"
  /\ text = <<>>
  /\ parsed = NotParsed
  /\ lineno = 0
  /\ entries = <<>>
  /\ cur = 0
  /\ persons = <<>>
  /\ idx = 0
  /\ ppl = <<>>
  /\ Root = 0
  /\ ret = NotReturned
  /\ input = <<>>
  /\ NoLayout

\* the caller extends the argument by one character
TypeChar ==
  /\ pc = "details" /\ Len(text) < MaxLen
  /\ \E c \in Alphabet : text' = Append(text, c)
  /\ UNCHANGED <<SurnameSeparateLine, pc, parsed, lineno, entries, cur, persons, idx, ppl,
                 Root, ret, input>>
  /\ UNCHANGED layoutVars

\* the call p.parseDetails(ctx, text)
CallParseDetails ==
  /\ pc = "details"
  /\ parsed' = parseDetails(SurnameSeparateLine, text)
  /\ pc' = "parsed"
  /\ UNCHANGED <<SurnameSeparateLine, text, lineno, entries, cur, persons, idx, ppl,
                 Root, ret, input>>
  /\ UNCHANGED layoutVars

NextDetails ==
  \/ TypeChar
  \/ CallParseDetails

SpecDetails == InitDetails /\ [][NextDetails]_vars

(***************************************************************************)
(* The tree that Parse has built so far.                                   *)
(***************************************************************************)
People == 1..Len(persons)

Range(seq) == {seq[i] : i \in 1..Len(seq)}

IsChildOf(c, p) ==
  \E i \in 1..Len(persons[p].Families) : c \in Range(persons[p].Families[i].Children)

IsPartnerOf(c, p) ==
  \E i \in 1..Len(persons[p].Families) : persons[p].Families[i].Other = c

RECURSIVE Depth(_)
Depth(c) ==
  IF \E p \in 1..(c - 1) : IsChildOf(c, p)
  THEN 1 + Depth(CHOOSE p \in 1..(c - 1) : IsChildOf(c, p))
  ELSE 0

\* the build loop is about to handle a generation line with a non-empty stack
GenStep == pc = "build" /\ idx <= Len(entries) /\ Len(ppl) > 0 /\ ~entries[idx].isSpouse

\* the build loop is about to handle a spouse line with a non-empty stack
SpouseStep == pc = "build" /\ idx <= Len(entries) /\ Len(ppl) > 0 /\ entries[idx].isSpouse

Rejected == pc' = "done" /\ ret'.chart = "nil" /\ ret'.err # NoErr

(***************************************************************************)
(* C1.  A generation line is accepted only if, once every open entry whose *)
(* generation is greater than or equal to the line's generation is off the *)
(* stack, the line's generation is one more than the generation of the     *)
(* stack top; otherwise Parse fails.  Hence every accepted person entered  *)
(* with generation g sits at depth g-1 of the tree and its parent was      *)
(* entered with generation g-1.                                            *)
(***************************************************************************)
C1_Accepts ==
  GenStep =>
    LET e == entries[idx]
        st == SelectSeq(ppl, LAMBDA k : entries[k].generation < e.generation)
    IN IF st # <<>> /\ e.generation = entries[Top(st)].generation + 1
       THEN pc' = "build" /\ idx' = idx + 1 /\ ppl' = Append(st, idx)
       ELSE Rejected /\ persons' = persons

C1_Depth ==
  \A c \in People :
    (c < idx /\ ~entries[c].isSpouse) =>
      /\ Depth(c) = entries[c].generation - 1
      /\ \/ c = Root /\ entries[c].generation = 1
         \/ \E p \in People :
              /\ IsChildOf(c, p)
              /\ ~entries[p].isSpouse
              /\ entries[p].generation = entries[c].generation - 1

C1_GenerationSequencing == []C1_Depth /\ [][C1_Accepts]_vars

\* a chart was returned in which a generation-3 person is followed by a
\* generation-2 person, so that the stack was popped before the comparison
C1_Witness ==
  /\ pc = "done" /\ ret.chart = "lin"
  /\ \E c, d \in People :
       /\ c < d
       /\ entries[c].generation = 3 /\ entries[d].generation = 2
       /\ Depth(c) = 2 /\ Depth(d) = 1

(***************************************************************************)
(* C2.  As stated: on a spouse line every open entry whose indent is       *)
(* greater than the line's indent is popped, and the new family is the     *)
(* last family of the person then on top of the stack.                     *)
(***************************************************************************)
C2_PopsEveryGreaterIndent ==
  [][(SpouseStep /\ idx' = idx + 1) =>
       \A k \in Range(ppl') : entries[k].indent <= entries[idx].indent]_vars

(***************************************************************************)
(* C2, amended.  On a spouse line entries are popped from the top of the   *)
(* stack for as long as the top's indent is greater than the line's        *)
(* indent; entries below the first one of equal or lesser indent stay      *)
(* open whatever their indent.  The new family, whose Other is the spouse  *)
(* and which has no children, becomes the last family of the person then   *)
(* on top; if no open entry has equal or lesser indent Parse fails.  The   *)
(* spouse is not pushed, and an entry that is not open after a step got no *)
(* family or child in it, and no entry other than the one being handled    *)
(* is ever pushed.                                                         *)
(***************************************************************************)
C2_SpouseAttach ==
  SpouseStep =>
    LET e == entries[idx]
        fits == {i \in 1..Len(ppl) : entries[ppl[i]].indent <= e.indent}
    IN IF fits = {}
       THEN Rejected /\ persons' = persons
       ELSE LET m == CHOOSE i \in fits : \A j \in fits : j <= i
                prev == entries[ppl[m]].person
            IN /\ pc' = "build" /\ idx' = idx + 1
               /\ ppl' = SubSeq(ppl, 1, m)
               /\ Len(persons'[prev].Families) = Len(persons[prev].Families) + 1
               /\ \A i \in 1..Len(persons[prev].Families) :
                    persons'[prev].Families[i] = persons[prev].Families[i]
               /\ persons'[prev].Families[Len(persons'[prev].Families)].Other = e.person
               /\ persons'[prev].Families[Len(persons'[prev].Families)].Children = <<>>
               /\ \A q \in People \ {prev} : persons'[q] = persons[q]

C2_OnlyOpenChange ==
  pc = "build" =>
    /\ Range(ppl') \subseteq Range(ppl) \cup {idx}
    /\ \A q \in People :
         persons'[q] # persons[q] => entries[q].person \in {entries[k].person : k \in Range(ppl')}

C2_SpouseNearestOpen == [][C2_SpouseAttach /\ C2_OnlyOpenChange]_vars

\* a spouse line of indent 1 came after a child of indent 2 of the root of
\* indent 0: the child was popped and the family went to the root
C2_Witness ==
  /\ pc = "build" /\ idx = 4
  /\ entries[3].isSpouse
  /\ entries[2].indent > entries[3].indent
  /\ entries[1].indent <= entries[3].indent
  /\ IsChildOf(2, 1)
  /\ ppl = <<1>>
  /\ Len(persons[1].Families) = 2
  /\ persons[1].Families[2].Other = 3

(***************************************************************************)
(* C3.  An accepted generation line's person becomes the last child of the *)
(* last family that its parent, the stack top after popping, has at that   *)
(* moment; a parent without a family gets a new family with no partner.    *)
(* The families' children stay in input order and the new person becomes   *)
(* the top of the stack.                                                   *)
(***************************************************************************)
C3_ChildAttach ==
  (GenStep /\ idx' = idx + 1) =>
    LET e == entries[idx]
        prev == entries[ppl'[Len(ppl') - 1]].person
        old == persons[prev].Families
        new == persons'[prev].Families
    IN /\ Len(ppl') >= 2 /\ Top(ppl') = idx
       /\ IF old = <<>>
          THEN new = <<[Other |-> 0, Details |-> <<>>, Children |-> <<e.person>>]>>
          ELSE /\ Len(new) = Len(old)
               /\ \A i \in 1..(Len(old) - 1) : new[i] = old[i]
               /\ new[Len(old)].Other = old[Len(old)].Other
               /\ new[Len(old)].Children = Append(old[Len(old)].Children, e.person)
       /\ \A q \in People \ {prev} : persons'[q] = persons[q]

C3_InputOrder ==
  \A p \in People : \A i \in 1..Len(persons[p].Families) :
    LET ch == persons[p].Families[i].Children
    IN \A a, b \in 1..Len(ch) : a < b => entries[ch[a]].lineno < entries[ch[b]].lineno

C3_ChildOfLastFamily == []C3_InputOrder /\ [][C3_ChildAttach]_vars

\* the root has two spouses and the child listed after both is the only
\* child, in the second spouse's family
C3_Witness ==
  /\ Root = 1
  /\ Len(persons) >= 4
  /\ Len(persons[1].Families) = 2
  /\ persons[1].Families[1].Other = 2 /\ persons[1].Families[1].Children = <<>>
  /\ persons[1].Families[2].Other = 3 /\ persons[1].Families[2].Children = <<4>>
  /\ Top(ppl) = 4

(***************************************************************************)
(* The input read so far: its entry lines and their physical numbers.      *)
(***************************************************************************)
IsEntryLine(n) == input[n].kind \in {"gen", "sp", "badgen"}

\* the physical line numbers of the entry lines, in order
EntryLineNos == SelectSeq([n \in 1..Len(input) |-> n], IsEntryLine)

(***************************************************************************)
(* C4.  The first entry of the input must be a generation line with        *)
(* generation 1 and becomes the root; if it is a spouse line or has        *)
(* another generation number, Parse fails with an error.                   *)
(***************************************************************************)
C4_FirstEntryIsRoot ==
  LET nos == EntryLineNos
      first == input[nos[1]]
  IN /\ (Root # 0 \/ idx >= 2) =>
          /\ Root = entries[1].person
          /\ entries[1].lineno = nos[1]
          /\ first.kind = "gen"
          /\ first.generation = 1
     /\ (pc = "done" /\ nos # <<>> /\ first.kind = "sp") =>
          /\ Root = 0 /\ ret.chart = "nil"
          /\ idx >= 1 => ret.err = Err("spouse encountered before first person", nos[1])
     /\ (pc = "done" /\ nos # <<>> /\ first.kind = "gen" /\ first.generation # 1) =>
          /\ Root = 0 /\ ret.chart = "nil"
          /\ idx >= 1 => ret.err = Err("first person must have generation number 1", nos[1])

\* Parse has failed on a first entry of generation 2 that stands on line 2
C4_Witness ==
  /\ pc = "done" /\ ret.chart = "nil"
  /\ ret.err = Err("first person must have generation number 1", 2)
  /\ input[2].kind = "gen" /\ input[2].generation = 2

(***************************************************************************)
(* C5.  Every chart returned with a nil error, also for an empty input or  *)
(* one of blank lines only, has a root: Root is non-nil and has ID 1.      *)
(***************************************************************************)
C5_ReturnedChartHasRoot ==
  (pc = "done" /\ ret.err = NoErr) =>
    (ret.chart = "lin" /\ Root # 0 /\ persons[Root].ID = 1)

(***************************************************************************)
(* C6.  Whenever Parse rejects its input for a structural reason it        *)
(* returns a nil chart, never a partial one, and an error that names the   *)
(* 1-based physical line number, blank and continuation lines counted, of  *)
(* the first line of the offending entry.                                  *)
(***************************************************************************)
ScanErrors == {"malformed entry", "malformed generation number"}

BuildErrors ==
  {"spouse encountered before first person", "first person must have generation number 1",
   "invalid person indent", "invalid person generation number",
   "expected person with generation number"}

\* the entry on physical line n is at fault in the way the error kind says
Offends(kind, n) ==
  LET open == {entries[k] : k \in Range(ppl)}
      below == {o \in open : o.generation < input[n].generation}
      nos == EntryLineNos
  IN CASE kind = "malformed entry" -> input[n].kind = "other" /\ nos = <<>>
       [] kind = "malformed generation number" -> input[n].kind = "badgen"
       [] kind = "spouse encountered before first person" ->
            input[n].kind = "sp" /\ nos[1] = n
       [] kind = "first person must have generation number 1" ->
            input[n].kind = "gen" /\ input[n].generation # 1 /\ nos[1] = n
       [] kind = "invalid person indent" ->
            input[n].kind = "sp" /\ \A o \in open : o.indent > input[n].indent
       [] kind = "invalid person generation number" ->
            input[n].kind = "gen" /\ below = {}
       [] kind = "expected person with generation number" ->
            /\ input[n].kind = "gen" /\ below # {}
            /\ \A o \in below : o.generation + 1 # input[n].generation
       [] OTHER -> FALSE

C6_ErrorNamesLine ==
  pc = "done" =>
    /\ (ret.chart = "nil") <=> (ret.err # NoErr)
    /\ ret.chart \in {"nil", "lin"}
    /\ ret.err.kind \in ScanErrors =>
         ret.err.line = Len(input) /\ Offends(ret.err.kind, ret.err.line)
    /\ ret.err.kind \in BuildErrors =>
         /\ idx \in 1..Len(EntryLineNos)
         /\ ret.err.line = EntryLineNos[idx]
         /\ Offends(ret.err.kind, ret.err.line)
    /\ ret.err.kind \in ScanErrors \cup BuildErrors \cup {"read", "nil"}

\* a spouse line on physical line 4, the second entry, after a blank line
\* and a continuation line, was rejected for its indent
C6_Witness ==
  /\ pc = "done" /\ ret.chart = "nil"
  /\ ret.err = Err("invalid person indent", 4)
  /\ idx = 2
  /\ input[1].kind = "blank" /\ input[3].kind = "other"

RECURSIVE MatchingClose(_, _, _)
MatchingClose(s, i, depth) ==
  IF i > Len(s) THEN 0
  ELSE IF s[i] = "(" THEN MatchingClose(s, i + 1, depth + 1)
  ELSE IF s[i] = ")"
       THEN IF depth = 1 THEN i ELSE MatchingClose(s, i + 1, depth - 1)
  ELSE MatchingClose(s, i + 1, depth)

Has(s, c) == \E i \in 1..Len(s) : s[i] = c

\* 1-based index of the first "(" of s, which must have one
FirstOpen(s) == IndexByte(s, "(") + 1

\* parseDetails has returned for a trimmed, non-empty text without tags,
\* under a Parser that keeps the name on one line
PlainCall ==
  /\ pc = "parsed" /\ ~SurnameSeparateLine /\ ~parsed.panicked
  /\ text # <<>> /\ TrimSpace(text) = text
  /\ ~Has(text, "#")

EventTokens ==
  {<<"b", ".">>, <<"m", ".">>, <<"d", ".">>, <<"b", ":">>, <<"m", ":">>, <<"d", ":">>}

\* an event token stands at 1-based index i of s as a whole word
TokenAt(s, i) ==
  /\ i = 1 \/ s[i - 1] = " "
  /\ \E tok \in EventTokens :
       /\ i + Len(tok) - 1 <= Len(s)
       /\ SubSeq(s, i, i + Len(tok) - 1) = tok
       /\ i + Len(tok) - 1 = Len(s) \/ s[i + Len(tok)] = " "

(***************************************************************************)
(* C8.  For text name ( body ) rest with a non-empty name before the       *)
(* opening parenthesis and a body whose parentheses are balanced, the      *)
(* heading is the trimmed name and the details are body without the outer  *)
(* pair of parentheses, split at every semicolon into trimmed lines;       *)
(* nested parentheses stay and the text after the matching closing         *)
(* parenthesis is discarded.  Stated for a name followed by white space    *)
(* and a non-empty body.                                                   *)
(***************************************************************************)
C8_BalancedDetails ==
  (PlainCall /\ Has(text, "(")) =>
    LET o == FirstOpen(text)
        c == MatchingClose(text, o + 1, 1)
        name == SubSeq(text, 1, o - 1)
        body == SubSeq(text, o + 1, c - 1)
    IN (o > 1 /\ text[o - 1] = " " /\ c > o + 1) =>
         /\ parsed.Headings = <<TrimSpace(name)>>
         /\ parsed.Details = TrimEach(Split(body, ";"))

(***************************************************************************)
(* C9.  When the opening parenthesis that follows the name has no matching *)
(* closing parenthesis, the heading is the trimmed text before it and the  *)
(* remainder from the opening parenthesis onward is kept as detail text,   *)
(* so the details are not empty.                                           *)
(***************************************************************************)
C9_UnclosedKeptAsDetail ==
  (PlainCall /\ Has(text, "(")) =>
    LET o == FirstOpen(text)
        c == MatchingClose(text, o + 1, 1)
        name == SubSeq(text, 1, o - 1)
    IN (o > 1 /\ c = 0) =>
         /\ parsed.Headings = <<TrimSpace(name)>>
         /\ parsed.Details # <<>>
         /\ parsed.Details = TrimEach(Split(SubSeq(text, o, Len(text)), ";"))

(***************************************************************************)
(* C10.  In text without a parenthesis the name ends before the first      *)
(* white-space delimited event token: the heading is the trimmed text      *)
(* before the token and the details are the text from the token onward     *)
(* split on semicolons; with the token as first word there is no heading.  *)
(***************************************************************************)
C10_EventTokenEndsName ==
  (PlainCall /\ ~Has(text, "(") /\ ~Has(text, ")")) =>
    \A i \in 1..Len(text) :
      (TokenAt(text, i) /\ \A j \in 1..(i - 1) : ~TokenAt(text, j)) =>
        /\ parsed.Headings =
             IF i = 1 THEN <<>> ELSE <<TrimSpace(SubSeq(text, 1, i - 1))>>
        /\ parsed.Details = TrimEach(Split(SubSeq(text, i, Len(text)), ";"))

(***************************************************************************)
(* C11.  A continuation line is appended to the text of the current entry  *)
(* with a single space (blank lines in between do not end the entry), and  *)
(* the person of every entry has the headings and details that             *)
(* parseDetails gives for the whole joined text, as if the entry had been  *)
(* written on one line.                                                    *)
(***************************************************************************)
C11_ContinuationAsOneLine ==
  \A k \in 1..Len(entries) :
    LET oneLine == parseDetails(SurnameSeparateLine, entries[k].text)
        p == persons[entries[k].person]
    IN /\ p.Headings = oneLine.Headings
       /\ p.Details = oneLine.Details

(***************************************************************************)
(* DescendantChart.Layout: layout options, text measures, charts.          *)
(***************************************************************************)
\* largest number of persons of a chart
MaxPersons == 4

\* the nil pointer to a Blurb; the ID of a Blurb stands for a pointer to it
Nil == 0

\* Go's integer division, which truncates toward zero
Quo(a, b) == IF a >= 0 THEN a \div b ELSE -((-a) \div b)

Max(a, b) == IF a >= b THEN a ELSE b

Min(a, b) == IF a <= b THEN a ELSE b

TextStyle(fontSize, lineHeight) == [FontSize |-> fontSize, LineHeight |-> lineHeight]

DefaultLayoutOptions ==
  [Iterations |-> 30000, DetailWrapWidth |-> 18 * 16, Hspace |-> 16, LineWidth |-> 2,
   Margin |-> 16, FamilyDrop |-> 48, ChildDrop |-> 16, LineGap |-> 8,
   TitleStyle |-> TextStyle(40, 42), NoteStyle |-> TextStyle(20, 22),
   HeadingStyle |-> TextStyle(20, 22), DetailStyle |-> TextStyle(16, 18)]

\* options of a caller who wants a narrow chart
NarrowLayoutOptions ==
  [Iterations |-> 1, DetailWrapWidth |-> 30, Hspace |-> 2, LineWidth |-> 1,
   Margin |-> 0, FamilyDrop |-> 4, ChildDrop |-> 2, LineGap |-> 1,
   TitleStyle |-> TextStyle(16, 18), NoteStyle |-> TextStyle(16, 18),
   HeadingStyle |-> TextStyle(16, 18), DetailStyle |-> TextStyle(16, 18)]

\* the argument opts of Layout; nil stands for the defaults
Options == {DefaultLayoutOptions, NarrowLayoutOptions}

\* the entries of the table runeWidths for the characters of the texts used here
runeWidths == [c \in {" ", "(", ")", "1", "2", "3", "4", "5", "6", "=", "i", "m"} |->
  CASE c = " " -> 5
    [] c \in {"(", ")"} -> 6
    [] c \in {"1", "2", "3", "4", "5", "6"} -> 10
    [] c = "=" -> 13
    [] c = "i" -> 5
    [] c = "m" -> 16]

RECURSIVE sumWidths(_, _)
sumWidths(t, fontSize) ==
  IF t = <<>> THEN 0
  ELSE (IF t[1] \in DOMAIN runeWidths THEN runeWidths[t[1]] ELSE fontSize)
       + sumWidths(Tail(t), fontSize)

\* Pixel(float64(w)*float64(fontSize)/16 + 0.5) for w >= 0
textWidth(t, fontSize) ==
  LET w == sumWidths(t, fontSize)
  IN IF fontSize = 16 THEN w ELSE (2 * w * fontSize + 16) \div 32

\* strings.Fields
Fields(s) == SelectSeq(Split(s, " "), LAMBDA w : w # <<>>)

\* the loop of wrapText over the words of one text that is too wide
RECURSIVE wrapWords(_, _, _, _, _)
wrapWords(words, w, line, maxWidth, fontSize) ==
  IF w > Len(words) THEN <<line>>
  ELSE LET candidate == (IF Len(line) # 0 THEN line \o <<" ">> ELSE line) \o words[w]
       IN IF textWidth(candidate, fontSize) >= maxWidth
          THEN IF Len(line) = 0
               THEN <<candidate>> \o wrapWords(words, w + 1, <<>>, maxWidth, fontSize)
               ELSE <<line>> \o wrapWords(words, w + 1, words[w], maxWidth, fontSize)
          ELSE wrapWords(words, w + 1, candidate, maxWidth, fontSize)

RECURSIVE wrapText(_, _, _)
wrapText(texts, maxWidth, fontSize) ==
  IF texts = <<>> THEN <<>>
  ELSE LET t == texts[1]
           rest == wrapText(Tail(texts), maxWidth, fontSize)
       IN IF textWidth(t, fontSize) <= maxWidth THEN <<t>> \o rest
          ELSE IF Fields(t) = <<>> THEN <<<<>>>> \o rest
          ELSE wrapWords(Fields(t), 1, <<>>, maxWidth, fontSize) \o rest

titleDimensionsHeight(title, notes, titleStyle, noteStyle) ==
  IF title = <<>> /\ Len(notes) = 0 THEN 0
  ELSE (IF title # <<>> THEN titleStyle.LineHeight ELSE 0)
       + (IF Len(notes) # 0 THEN noteStyle.LineHeight * Len(notes) ELSE 0)

\* the texts of a person: a short detail line alone, as in the layout tests, or a
\* long heading
Narrow == <<"i">>

Wide == <<"m", "m", "m", " ", "m", "m", "m">>

PersonTexts ==
  {[Headings |-> <<>>, Details |-> <<Narrow>>], [Headings |-> <<Wide>>, Details |-> <<>>]}

Titles == {<<>>}

\* &DescendantPerson{ID: id, Headings: ..., Details: ...}
DescendantPerson(id, t) ==
  [ID |-> id, Headings |-> t.Headings, Details |-> t.Details, Families |-> <<>>]

\* the persons that can still get a partner or a child when the chart is written
\* down person by person: p, the last child of p's last family, and so on
RECURSIVE OpenPath(_, _)
OpenPath(ps, p) ==
  LET fams == ps[p].Families
  IN IF Len(fams) = 0 \/ Len(fams[Len(fams)].Children) = 0 THEN {p}
     ELSE {p} \cup OpenPath(ps, fams[Len(fams)].Children[Len(fams[Len(fams)].Children)])

\* the trees of n persons with IDs 1..n in pre-order, each person after the first
\* being a partner or a child of an earlier person, attached as Parse attaches it
RECURSIVE Trees(_)
Trees(n) ==
  IF n = 1 THEN {<<DescendantPerson(1, t)>> : t \in PersonTexts}
  ELSE UNION {
         LET ps1 == Append(ps, DescendantPerson(n, t))
         IN {addSpouse(ps1, j, n) : j \in OpenPath(ps, 1)}
            \cup {addChild(ps1, j, n) : j \in OpenPath(ps, 1)}
         : ps \in Trees(n - 1), t \in PersonTexts}

Charts ==
  [Title : Titles, Notes : {<<>>}, Root : {1},
   persons : UNION {Trees(n) : n \in 1..MaxPersons}]

\* the depth of a chart: the number of generations
RECURSIVE Generation(_, _)
Generation(ps, p) ==
  IF \E q \in 1..Len(ps) : \E f \in Range(ps[q].Families) :
       p = f.Other \/ p \in Range(f.Children)
  THEN LET q == CHOOSE q \in 1..Len(ps) : \E f \in Range(ps[q].Families) :
                  p = f.Other \/ p \in Range(f.Children)
       IN IF \E f \in Range(ps[q].Families) : p = f.Other
          THEN Generation(ps, q)
          ELSE Generation(ps, q) + 1
  ELSE 0

(***************************************************************************)
(* The tree walk.  A layout under construction is a record L with the map  *)
(* blurbs, the row table rows (of Blurb IDs) and the allocation count      *)
(* heap; opts and chart are the ones of the call in progress.              *)
(***************************************************************************)
RECURSIVE maxTextWidth(_, _, _)
maxTextWidth(texts, fontSize, width) ==
  IF texts = <<>> THEN width
  ELSE maxTextWidth(Tail(texts), fontSize, Max(width, textWidth(texts[1], fontSize)))

\* "for len(l.rows) <= row { l.rows = append(l.rows, []*Blurb{}) }"
RECURSIVE growRows(_, _)
growRows(rows, row) == IF Len(rows) <= row THEN growRows(Append(rows, <<>>), row) ELSE rows

\* newBlurb that enters every Blurb in the first row
newBlurbRowZero(L, id, headings, texts0, row, parent) ==
  LET wrapped == wrapText(texts0, opts.DetailWrapWidth, opts.DetailStyle.FontSize)
      heads == IF Len(headings) > 0 THEN headings ELSE <<wrapped[1]>>
      texts == IF Len(headings) > 0 THEN wrapped ELSE Tail(wrapped)
      b == [ID |-> id, addr |-> L.heap + 1, Row |-> row, Parent |-> parent,
            TopHookOffset |-> opts.Hspace * 2,
            SideHookOffset |-> Quo(opts.HeadingStyle.LineHeight, 2),
            HeadingTexts |-> heads, DetailTexts |-> texts,
            Height |-> opts.HeadingStyle.LineHeight * Len(heads)
                       + opts.DetailStyle.LineHeight * Len(texts),
            Width |-> maxTextWidth(texts, opts.DetailStyle.FontSize,
                        maxTextWidth(heads, opts.HeadingStyle.FontSize, 0)),
            CentreText |-> FALSE, AbsolutePositioning |-> FALSE, TopPos |-> 0,
            LeftPos |-> 0, LeftPad |-> 0, LeftShift |-> 0, NoShift |-> FALSE,
            LeftNeighbour |-> Nil, FirstChild |-> Nil, LastChild |-> Nil,
            KeepWith |-> <<>>, KeepRightOf |-> <<>>, LeftStop |-> Nil, RightStop |-> Nil]
      rows == growRows(L.rows, 0)
  IN [blurbs |-> (id :> b) @@ L.blurbs,
      rows |-> [rows EXCEPT ![1] = Append(@, id)],
      heap |-> L.heap + 1]

\* newBlurb; the chart's persons have a heading or a detail line, so texts[0] exists
newBlurb(L, id, headings, texts0, row, parent) ==
  LET wrapped == wrapText(texts0, opts.DetailWrapWidth, opts.DetailStyle.FontSize)
      heads == IF Len(headings) > 0 THEN headings ELSE <<wrapped[1]>>
      texts == IF Len(headings) > 0 THEN wrapped ELSE Tail(wrapped)
      b == [ID |-> id, addr |-> L.heap + 1, Row |-> row, Parent |-> parent,
            TopHookOffset |-> opts.Hspace * 2,
            SideHookOffset |-> Quo(opts.HeadingStyle.LineHeight, 2),
            HeadingTexts |-> heads, DetailTexts |-> texts,
            Height |-> opts.HeadingStyle.LineHeight * Len(heads)
                       + opts.DetailStyle.LineHeight * Len(texts),
            Width |-> maxTextWidth(texts, opts.DetailStyle.FontSize,
                        maxTextWidth(heads, opts.HeadingStyle.FontSize, 0)),
            CentreText |-> FALSE, AbsolutePositioning |-> FALSE, TopPos |-> 0,
            LeftPos |-> 0, LeftPad |-> 0, LeftShift |-> 0, NoShift |-> FALSE,
            LeftNeighbour |-> Nil, FirstChild |-> Nil, LastChild |-> Nil,
            KeepWith |-> <<>>, KeepRightOf |-> <<>>, LeftStop |-> Nil, RightStop |-> Nil]
      rows == growRows(L.rows, row)
  IN [blurbs |-> (id :> b) @@ L.blurbs,
      rows |-> [rows EXCEPT ![row + 1] = Append(@, id)],
      heap |-> L.heap + 1]

\* relText that numbers the families from 0
relTextFromZero(p, fi) ==
  IF Len(chart.persons[p].Families) > 1
  THEN <<"=", " ", "(", ToString(fi), ")">>
  ELSE <<"=">>

\* the label of the relationship marker of family fi (0-based) of person p
relText(p, fi) ==
  IF Len(chart.persons[p].Families) > 1
  THEN <<"=", " ", "(", ToString(fi + 1), ")">>
  ELSE <<"=">>

\* the centre reference of a family, always the person
famCentreAlwaysPerson(rel, b) == b

\* famCentre: the relationship marker rel if the family has one, else the person b
famCentreOf(rel, b) == IF rel # Nil THEN rel ELSE b

\* x.KeepWith = append(x.KeepWith, y) alone
keepWithOneWay(bl, x, y) == [bl EXCEPT ![x].KeepWith = Append(@, y)]

\* x.KeepWith = append(x.KeepWith, y); y.KeepWith = append(y.KeepWith, x)
keepWithEachOther(bl, x, y) ==
  [bl EXCEPT ![x].KeepWith = Append(@, y), ![y].KeepWith = Append(@, x)]

\* "if cond { x.KeepWith = append(x.KeepWith, y) }"
keepWithIf(bl, cond, x, y) ==
  IF cond THEN [bl EXCEPT ![x].KeepWith = Append(@, y)] ELSE bl

\* "if cond { x.KeepRightOf = append(x.KeepRightOf, y) }"
keepRightOfIf(bl, cond, x, y) ==
  IF cond THEN [bl EXCEPT ![x].KeepRightOf = Append(@, y)] ELSE bl

\* "if x != nil && x.LeftStop == nil { x.LeftStop = c }"
leftStopIfUnset(bl, x, c) ==
  IF x # Nil /\ bl[x].LeftStop = Nil THEN [bl EXCEPT ![x].LeftStop = c] ELSE bl

\* the body of the loop over the children after the child's addPerson: the links
\* between the child c (the ci-th of n), the person b, the marker rel and the partner sp
linkChild(bl, b, c, ci, n, rel, sp, prevChild, fi, prevSpouseWithChildren) ==
  LET B1 == [bl EXCEPT ![b].FirstChild = IF ci = 0 THEN c ELSE @]
      B2 == [B1 EXCEPT ![b].LastChild = IF ci = n - 1 THEN c ELSE @]
      B3 == keepWithEachOther(B2, c, IF rel # Nil THEN rel ELSE b)
      B4 == keepRightOfIf(B3, rel # Nil /\ ci = 0 /\ n > 1, rel, c)
      B5 == keepWithIf(B4, prevChild # Nil, c, prevChild)
      B6 == [leftStopIfUnset(B5, b, c) EXCEPT ![b].RightStop = c]
      B7 == leftStopIfUnset(B6, sp, c)
      B8 == leftStopIfUnset(B7, rel, c)
  IN keepRightOfIf(B8, fi > 0 /\ prevSpouseWithChildren # Nil, c, prevSpouseWithChildren)

RECURSIVE addPerson(_, _, _, _)
RECURSIVE addPersonFamilies(_, _, _, _, _, _)
RECURSIVE addPersonChildren(_, _, _, _, _, _, _, _, _, _)

\* the loop "for ci := range p.Families[fi].Children", from ci on
addPersonChildren(L, p, fi, ci, row, rel, sp, famCentre, prevChild, prevSpouseWithChildren) ==
  LET children == chart.persons[p].Families[fi + 1].Children
  IN IF ci >= Len(children) THEN L
     ELSE
       LET b == chart.persons[p].ID
           c == chart.persons[children[ci + 1]].ID
           L1 == addPerson(L, children[ci + 1], row + 1, famCentre)
       IN addPersonChildren(
            [L1 EXCEPT !.blurbs = linkChild(@, b, c, ci, Len(children), rel, sp,
                                            prevChild, fi, prevSpouseWithChildren)],
            p, fi, ci + 1, row, rel, sp, famCentre, c, prevSpouseWithChildren)

\* the loop "for fi := range p.Families", from fi on
addPersonFamilies(L, p, fi, row, prevSpouseWithChildren, lastChildOfPrevFamily) ==
  IF fi >= Len(chart.persons[p].Families) THEN L
  ELSE
    LET fam == chart.persons[p].Families[fi + 1]
        b == chart.persons[p].ID
        relDetails == <<relText(p, fi)>> \o fam.Details
        rel == IF fam.Other # 0 THEN -chart.persons[fam.Other].ID ELSE Nil
        sp == IF fam.Other # 0 THEN chart.persons[fam.Other].ID ELSE Nil
        L1 == IF fam.Other # 0
              THEN LET La == newBlurb(L, rel, <<>>, relDetails, row, Nil)
                       Lb == [La EXCEPT !.blurbs =
                                keepWithEachOther([@ EXCEPT ![rel].CentreText = TRUE], b, rel)]
                       Lc == addPerson(Lb, fam.Other, row, Nil)
                   IN [Lc EXCEPT !.blurbs =
                         keepWithEachOther([@ EXCEPT ![sp].NoShift = TRUE], sp, rel)]
              ELSE L
        famCentre == famCentreOf(rel, b)
        famRightmost == IF fam.Other # 0 THEN sp ELSE b
        withChildren == Len(fam.Children) > 0
        prevSpouse1 == IF withChildren THEN famRightmost ELSE prevSpouseWithChildren
        L2 == [L1 EXCEPT !.blurbs =
                 keepRightOfIf(@, withChildren /\ lastChildOfPrevFamily # Nil,
                               famCentre, lastChildOfPrevFamily)]
        L3 == addPersonChildren(L2, p, fi, 0, row, rel, sp, famCentre, Nil, prevSpouse1)
        lastChild1 == IF withChildren
                      THEN chart.persons[fam.Children[Len(fam.Children)]].ID
                      ELSE lastChildOfPrevFamily
    IN addPersonFamilies(L3, p, fi + 1, row, prevSpouse1, lastChild1)

\* l.addPerson(p, row, parent); the Blurb it returns is the one with p's ID
addPerson(L, p, row, parent) ==
  addPersonFamilies(
    newBlurb(L, chart.persons[p].ID, chart.persons[p].Headings, chart.persons[p].Details,
             row, parent),
    p, 0, row, Nil, Nil)

(***************************************************************************)
(* Geometry of a Blurb (layout.go); bl is the map of the Blurbs.           *)
(***************************************************************************)
RECURSIVE X(_, _)
RECURSIVE Right(_, _)

Right(bl, b) ==
  IF bl[b].AbsolutePositioning THEN bl[b].LeftPos + bl[b].Width
  ELSE X(bl, b) + Quo(bl[b].Width, 2)

X(bl, b) ==
  IF bl[b].AbsolutePositioning THEN bl[b].LeftPos + Quo(bl[b].Width, 2)
  ELSE (IF bl[b].LeftNeighbour # Nil THEN Right(bl, bl[b].LeftNeighbour) ELSE 0)
       + bl[b].LeftPad + bl[b].LeftShift + Quo(bl[b].Width, 2)

Left(bl, b) ==
  IF bl[b].AbsolutePositioning THEN bl[b].LeftPos
  ELSE X(bl, b) - Quo(bl[b].Width, 2)

Bottom(bl, b) == bl[b].TopPos + bl[b].Height

TopHookX(bl, b) == Left(bl, b) + bl[b].TopHookOffset

(***************************************************************************)
(* SpreadingDescendantArranger.Arrange, loop by loop.  Rows are numbered   *)
(* from 0 as in the code; rows[row + 1] is l.rows[row].                    *)
(***************************************************************************)
\* "spread rows vertically": the inner loop over one row, from i on
RECURSIVE spreadRow(_, _, _, _)
spreadRow(bl, bs, i, top) ==
  IF i >= Len(bs) THEN bl
  ELSE spreadRow([bl EXCEPT ![bs[i + 1]].AbsolutePositioning = TRUE,
                            ![bs[i + 1]].TopPos = top,
                            ![bs[i + 1]].LeftNeighbour = IF i > 0 THEN bs[i] ELSE @],
                 bs, i + 1, top)

\* the height of the first Blurb of the row alone
rowHeightOfFirst(bl, bs) == IF bs = <<>> THEN 0 ELSE bl[bs[1]].Height

RECURSIVE rowHeight(_, _)
rowHeight(bl, bs) ==
  IF bs = <<>> THEN 0 ELSE Max(bl[bs[1]].Height, rowHeight(bl, Tail(bs)))

\* the outer loop "for _, bs := range l.rows", from row on
RECURSIVE spreadRows(_, _, _, _, _)
spreadRows(bl, rows, row, top, generationDrop) ==
  IF row >= Len(rows) THEN bl
  ELSE spreadRows(spreadRow(bl, rows[row + 1], 0, top), rows, row + 1,
                  top + rowHeight(bl, rows[row + 1]) + generationDrop, generationDrop)

\* gapBefore with the gap doubled between families
gapBeforeDoubled(bl, bs, i) ==
  IF i > 0
  THEN (IF bl[bs[i + 1]].Parent # bl[bs[i]].Parent THEN opts.Hspace * 2 ELSE opts.Hspace)
  ELSE 0

\* the gap before bs[i]: Hspace, and twice Hspace more between families
gapBefore(bl, bs, i) ==
  IF i > 0
  THEN opts.Hspace + (IF bl[bs[i + 1]].Parent # bl[bs[i]].Parent THEN opts.Hspace * 2 ELSE 0)
  ELSE 0

\* "spread blurbs in last row evenly", from i on
RECURSIVE spreadLastRow(_, _, _, _)
spreadLastRow(bl, bs, i, left) ==
  IF i >= Len(bs) THEN bl
  ELSE LET at == left + gapBefore(bl, bs, i)
       IN spreadLastRow([bl EXCEPT ![bs[i + 1]].LeftPos = at], bs, i + 1,
                        at + bl[bs[i + 1]].Width)

RECURSIVE shiftChildren(_, _, _, _, _)
RECURSIVE shiftChildrenFrom(_, _, _, _, _, _)

\* the loop of shiftChildren over l.rows[row], from i on
shiftChildrenFrom(bl, rows, row, parent, shift, i) ==
  IF i >= Len(rows[row + 1]) THEN bl
  ELSE LET b == rows[row + 1][i + 1]
       IN IF bl[b].Parent = parent
          THEN shiftChildrenFrom(
                 shiftChildren([bl EXCEPT ![b].LeftPos = @ + shift], rows, row + 1, b, shift),
                 rows, row, parent, shift, i + 1)
          ELSE shiftChildrenFrom(bl, rows, row, parent, shift, i + 1)

shiftChildren(bl, rows, row, parent, shift) ==
  IF bl[parent].FirstChild = Nil \/ row > Len(rows) - 1 THEN bl
  ELSE shiftChildrenFrom(bl, rows, row, parent, shift, 0)

\* shiftSubtrees with "for j := i + 1"
RECURSIVE shiftSubtreesAfter(_, _, _, _, _)
shiftSubtreesAfter(bl, rows, row, j, shift) ==
  IF j + 1 >= Len(rows[row + 1]) THEN bl
  ELSE shiftSubtreesAfter(shiftChildren(bl, rows, row + 1, rows[row + 1][j + 2], shift),
                          rows, row, j + 1, shift)

\* "for j := i; j < len(bs); j++ { a.shiftChildren(l, row+1, bs[j], minLeft-x) }"
RECURSIVE shiftSubtrees(_, _, _, _, _)
shiftSubtrees(bl, rows, row, j, shift) ==
  IF j >= Len(rows[row + 1]) THEN bl
  ELSE shiftSubtrees(shiftChildren(bl, rows, row + 1, rows[row + 1][j + 1], shift),
                     rows, row, j + 1, shift)

\* one row of "work up from bottom row": the loop over bs = l.rows[row], from i on
RECURSIVE arrangeRow(_, _, _, _, _)
arrangeRow(bl, rows, row, i, minLeft0) ==
  LET bs == rows[row + 1]
  IN IF i >= Len(bs) THEN bl
     ELSE
       LET b == bs[i + 1]
           minLeft == minLeft0 + gapBefore(bl, bs, i)
           w == Right(bl, bl[b].LastChild) - Left(bl, bl[b].FirstChild)
           x == Left(bl, bl[b].FirstChild) + Quo(w, 2) - Quo(bl[b].Width, 2)
           shifted == IF bl[b].FirstChild # Nil /\ x < minLeft
                      THEN shiftSubtrees(bl, rows, row, i, minLeft - x)
                      ELSE bl
           at == IF bl[b].FirstChild # Nil /\ x >= minLeft THEN x ELSE minLeft
       IN arrangeRow([shifted EXCEPT ![b].LeftPos = at], rows, row, i + 1,
                     at + bl[b].Width)

\* closeGaps that moves the left edge to where the right edge belongs
RECURSIVE closeGapsNoWidth(_, _, _)
closeGapsNoWidth(bl, bs, i) ==
  IF i < 1 THEN bl
  ELSE LET prev == bs[i]
           cur1 == bs[i + 1]
       IN IF /\ bl[prev].FirstChild = Nil
             /\ bl[cur1].Parent # Nil /\ bl[prev].Parent # Nil
             /\ bl[cur1].Parent = bl[prev].Parent
             /\ Left(bl, cur1) - Right(bl, prev) > opts.Hspace
          THEN closeGapsNoWidth([bl EXCEPT ![prev].LeftPos = Left(bl, cur1) - opts.Hspace],
                                bs, i - 1)
          ELSE closeGapsNoWidth(bl, bs, i - 1)

\* closeGaps that pulls the sibling right up to its neighbour
RECURSIVE closeGapsNoHspace(_, _, _)
closeGapsNoHspace(bl, bs, i) ==
  IF i < 1 THEN bl
  ELSE LET prev == bs[i]
           cur1 == bs[i + 1]
       IN IF /\ bl[prev].FirstChild = Nil
             /\ bl[cur1].Parent # Nil /\ bl[prev].Parent # Nil
             /\ bl[cur1].Parent = bl[prev].Parent
             /\ Left(bl, cur1) - Right(bl, prev) > opts.Hspace
          THEN closeGapsNoHspace([bl EXCEPT ![prev].LeftPos = Left(bl, cur1) - bl[prev].Width],
                                 bs, i - 1)
          ELSE closeGapsNoHspace(bl, bs, i - 1)

\* "close up gaps": the loop over one row, from i down to 1
RECURSIVE closeGaps(_, _, _)
closeGaps(bl, bs, i) ==
  IF i < 1 THEN bl
  ELSE LET prev == bs[i]
           cur1 == bs[i + 1]
       IN IF /\ bl[prev].FirstChild = Nil
             /\ bl[cur1].Parent # Nil /\ bl[prev].Parent # Nil
             /\ bl[cur1].Parent = bl[prev].Parent
             /\ Left(bl, cur1) - Right(bl, prev) > opts.Hspace
          THEN closeGaps([bl EXCEPT ![prev].LeftPos =
                                      Left(bl, cur1) - opts.Hspace - bl[prev].Width],
                         bs, i - 1)
          ELSE closeGaps(bl, bs, i - 1)

\* "for row := range l.rows", from row on
RECURSIVE closeGapsRows(_, _, _)
closeGapsRows(bl, rows, row) ==
  IF row >= Len(rows) THEN bl
  ELSE closeGapsRows(closeGaps(bl, rows[row + 1], Len(rows[row + 1]) - 1), rows, row + 1)

SetMin(S) == CHOOSE x \in S : \A y \in S : x <= y

SetMax(S) == CHOOSE x \in S : \A y \in S : x >= y

\* SpreadingDescendantArranger.centreBlurbs: the new blurbs, width and height
centreBlurbs(L) ==
  LET bl == L.blurbs
      ids == DOMAIN bl
      minX == SetMin({Left(bl, b) : b \in ids}) - opts.Margin
      maxX == SetMax({Right(bl, b) : b \in ids}) + opts.Margin
      th == titleDimensionsHeight(L.title, L.notes, opts.TitleStyle, opts.NoteStyle)
      minY == SetMin({bl[b].TopPos : b \in ids}) - opts.Margin - th
      maxY == SetMax({Bottom(bl, b) : b \in ids}) + opts.Margin
      first == {L.rows[r][1] : r \in {r \in 1..Len(L.rows) : Len(L.rows[r]) > 0}}
  IN [L EXCEPT !.blurbs = [b \in ids |->
                             [bl[b] EXCEPT !.LeftPad = IF b \in first THEN @ - minX ELSE @,
                                           !.TopPos = @ - minY]],
               !.width = maxX - minX,
               !.height = maxY - minY]

Point(x, y) == [X |-> x, Y |-> y]

\* Connector that takes the short form under a relationship marker
ConnectorShortUnderMarker(bl, b) ==
  LET parent == bl[b].Parent
  IN IF bl[parent].ID < 0 /\ bl[parent].FirstChild = bl[parent].LastChild
     THEN [blurb |-> b,
           Points |-> <<Point(TopHookX(bl, b), bl[b].TopPos - opts.LineGap),
                        Point(TopHookX(bl, b), Bottom(bl, parent) + opts.LineGap)>>]
     ELSE [blurb |-> b,
           Points |-> <<Point(TopHookX(bl, b), bl[b].TopPos - opts.LineGap),
                        Point(TopHookX(bl, b), bl[b].TopPos - opts.LineGap - opts.ChildDrop),
                        Point(X(bl, parent), bl[b].TopPos - opts.LineGap - opts.ChildDrop),
                        Point(X(bl, parent), Bottom(bl, parent) + opts.LineGap)>>]

\* the connector of the Blurb b, which has a Parent; blurb records whose it is
Connector(bl, b) ==
  LET parent == bl[b].Parent
  IN IF bl[parent].ID > 0 /\ bl[parent].FirstChild = bl[parent].LastChild
     THEN [blurb |-> b,
           Points |-> <<Point(TopHookX(bl, b), bl[b].TopPos - opts.LineGap),
                        Point(TopHookX(bl, b), Bottom(bl, parent) + opts.LineGap)>>]
     ELSE [blurb |-> b,
           Points |-> <<Point(TopHookX(bl, b), bl[b].TopPos - opts.LineGap),
                        Point(TopHookX(bl, b), bl[b].TopPos - opts.LineGap - opts.ChildDrop),
                        Point(X(bl, parent), bl[b].TopPos - opts.LineGap - opts.ChildDrop),
                        Point(X(bl, parent), Bottom(bl, parent) + opts.LineGap)>>]

\* the connectors of the children of persons alone
connectorsOfPersons(bl) ==
  {Connector(bl, b) : b \in {c \in DOMAIN bl : bl[c].Parent # Nil /\ bl[c].Parent > 0}}

\* the list that "for _, b := range l.blurbs" builds.  It is in the order in which
\* the map is visited, which Go leaves open: it is kept as the collection of its
\* elements.
connectorsOf(bl) ==
  {Connector(bl, b) : b \in {c \in DOMAIN bl : bl[c].Parent # Nil}}

(***************************************************************************)
(* Calls of DescendantChart.Layout on one chart with one set of options.   *)
(***************************************************************************)
\* number of calls of Layout on the chart
MaxCalls == 2

parserVars == <<SurnameSeparateLine, lineno, entries, cur, persons, idx, ppl, Root, ret,
                text, parsed, input>>

InitLayout ==
  /\ chart \in Charts
  /\ opts \in Options
  /\ pc = "Layout"
  /\ l = <<>>
  /\ heap = 0
  /\ layouts = <<>>
  /\ arranger = <<>>
  /\ SurnameSeparateLine = FALSE
  /\ lineno = 0
  /\ entries = <<>>
  /\ cur = 0
  /\ persons = <<>>
  /\ idx = 0
  /\ ppl = <<>>
  /\ Root = 0
  /\ ret = NotReturned
  /\ text = <<>>
  /\ parsed = NotParsed
  /\ input = <<>>

\* LayoutAddPerson with a newBlurb that takes the heading out of the root's own
\* Details slice
LayoutAddPersonConsumesDetails ==
  /\ pc = "Layout" /\ Len(layouts) < MaxCalls
  /\ LET L == addPerson([blurbs |-> <<>>, rows |-> <<>>, heap |-> heap], chart.Root, 0, Nil)
     IN /\ l' = [title |-> chart.Title, notes |-> chart.Notes, width |-> 0, height |-> 0,
                 generationDrop |-> opts.LineWidth + opts.LineGap + opts.LineGap
                                     + opts.ChildDrop + opts.FamilyDrop,
                 blurbs |-> L.blurbs, connectors |-> {}, rows |-> L.rows, row |-> 0]
        /\ heap' = L.heap
  /\ chart' = IF Len(chart.persons[chart.Root].Details) > 1
              THEN [chart EXCEPT !.persons[chart.Root].Details = Tail(@)]
              ELSE [chart EXCEPT !.persons[chart.Root].Headings = <<Narrow>>,
                                 !.persons[chart.Root].Details = <<>>]
  /\ pc' = "spreadRows"
  /\ UNCHANGED <<opts, layouts, arranger>>
  /\ UNCHANGED parserVars

\* Layout up to and including "l.addPerson(ch.Root, 0, nil)"
LayoutAddPerson ==
  /\ pc = "Layout" /\ Len(layouts) < MaxCalls
  /\ LET L == addPerson([blurbs |-> <<>>, rows |-> <<>>, heap |-> heap], chart.Root, 0, Nil)
     IN /\ l' = [title |-> chart.Title, notes |-> chart.Notes, width |-> 0, height |-> 0,
                 generationDrop |-> opts.LineWidth + opts.LineGap + opts.LineGap
                                     + opts.ChildDrop + opts.FamilyDrop,
                 blurbs |-> L.blurbs, connectors |-> {}, rows |-> L.rows, row |-> 0]
        /\ heap' = L.heap
  /\ pc' = "spreadRows"
  /\ UNCHANGED <<chart, opts, layouts, arranger>>
  /\ UNCHANGED parserVars

\* Arrange: "spread rows vertically"
ArrangeSpreadRows ==
  /\ pc = "spreadRows"
  /\ l' = [l EXCEPT !.blurbs = spreadRows(@, l.rows, 0, 0, l.generationDrop)]
  /\ pc' = "lastRow"
  /\ UNCHANGED <<chart, opts, heap, layouts, arranger>>
  /\ UNCHANGED parserVars

\* Arrange: "spread blurbs in last row evenly", and the return for a single row
ArrangeLastRow ==
  /\ pc = "lastRow"
  /\ l' = [l EXCEPT !.blurbs = spreadLastRow(@, l.rows[Len(l.rows)], 0, 0),
                    !.row = Len(l.rows) - 2]
  /\ pc' = IF Len(l.rows) = 1 THEN "return" ELSE "arrangeRows"
  /\ UNCHANGED <<chart, opts, heap, layouts, arranger>>
  /\ UNCHANGED parserVars

\* Arrange: one iteration of "for row := len(l.rows) - 2; row >= 0; row--"
ArrangeRow ==
  /\ pc = "arrangeRows" /\ l.row >= 0
  /\ l' = [l EXCEPT !.blurbs = arrangeRow(@, l.rows, l.row, 0, 0),
                    !.row = @ - 1]
  /\ pc' = IF l.row = 0 THEN "closeGaps" ELSE pc
  /\ UNCHANGED <<chart, opts, heap, layouts, arranger>>
  /\ UNCHANGED parserVars

\* Arrange: "close up gaps by pulling across any early siblings"
ArrangeCloseGaps ==
  /\ pc = "closeGaps"
  /\ l' = [l EXCEPT !.blurbs = closeGapsRows(@, l.rows, 0)]
  /\ pc' = "centreBlurbs"
  /\ UNCHANGED <<chart, opts, heap, layouts, arranger>>
  /\ UNCHANGED parserVars

\* Arrange: "a.centreBlurbs(l)"
ArrangeCentreBlurbs ==
  /\ pc = "centreBlurbs"
  /\ l' = centreBlurbs(l)
  /\ pc' = "connectors"
  /\ UNCHANGED <<chart, opts, heap, layouts, arranger>>
  /\ UNCHANGED parserVars

\* Arrange: "l.connectors = []*Connector{}" and the loop that fills it
ArrangeConnectors ==
  /\ pc = "connectors"
  /\ l' = [l EXCEPT !.connectors = connectorsOf(l.blurbs)]
  /\ pc' = "return"
  /\ UNCHANGED <<chart, opts, heap, layouts, arranger>>
  /\ UNCHANGED parserVars

\* "return l"
LayoutReturn ==
  /\ pc = "return"
  /\ layouts' = Append(layouts, l)
  /\ pc' = "Layout"
  /\ UNCHANGED <<chart, opts, l, heap, arranger>>
  /\ UNCHANGED parserVars

NextLayout ==
  \/ LayoutAddPerson
  \/ ArrangeSpreadRows
  \/ ArrangeLastRow
  \/ ArrangeRow
  \/ ArrangeCloseGaps
  \/ ArrangeCentreBlurbs
  \/ ArrangeConnectors
  \/ LayoutReturn

SpecLayout == InitLayout /\ [][NextLayout]_vars

(***************************************************************************)
(* Properties of the layouts.  Every layout is looked at when Layout has    *)
(* returned it, and when the call in progress has walked the tree for it.  *)
(***************************************************************************)
\* the layout that Layout has just returned
Returned == IF pc = "Layout" /\ layouts # <<>> THEN {layouts[Len(layouts)]} ELSE {}

\* and the layout whose tree walk has just ended
Built == Returned \cup (IF pc = "spreadRows" THEN {l} ELSE {})

Persons == 1..Len(chart.persons)

\* the families of the chart as pairs of the person and the 1-based family index
Families == {pf \in Persons \X (1..MaxPersons) : pf[2] <= Len(chart.persons[pf[1]].Families)}

Family(pf) == chart.persons[pf[1]].Families[pf[2]]

IdOf(p) == chart.persons[p].ID

\* number of generations of the chart
ChartDepth == 1 + SetMax({Generation(chart.persons, p) : p \in Persons})

\* number of times b is listed in the row bs
Count(bs, b) == Cardinality({i \in 1..Len(bs) : bs[i] = b})

(***************************************************************************)
(* C12.  In every layout the Blurb of each person is in the row of the     *)
(* person's generation (the root in row 0, a child one row below its       *)
(* parent), the marker and the partner of a family are in the row of the   *)
(* person that has the family, every Blurb is listed in the row table      *)
(* once, in the row its Row names, and there are as many rows as the       *)
(* chart has generations.                                                  *)
(***************************************************************************)
C12_RowIsDepth ==
  \A L \in Built :
    /\ \A p \in Persons :
         IdOf(p) \in DOMAIN L.blurbs
           /\ L.blurbs[IdOf(p)].Row = Generation(chart.persons, p)
    /\ \A pf \in Families :
         Family(pf).Other # 0 =>
           /\ -IdOf(Family(pf).Other) \in DOMAIN L.blurbs
           /\ L.blurbs[-IdOf(Family(pf).Other)].Row = L.blurbs[IdOf(pf[1])].Row
           /\ L.blurbs[IdOf(Family(pf).Other)].Row = L.blurbs[IdOf(pf[1])].Row
    /\ \A b \in DOMAIN L.blurbs :
         \A r \in 1..Len(L.rows) :
           Count(L.rows[r], b) = IF r = L.blurbs[b].Row + 1 THEN 1 ELSE 0
    /\ \A b \in DOMAIN L.blurbs : L.blurbs[b].Row + 1 \in 1..Len(L.rows)
    /\ Len(L.rows) = ChartDepth

\* a returned layout of three generations with a partner below the root's row
C12_Witness ==
  \E L \in Returned :
    /\ Len(L.rows) = 3
    /\ \E b \in DOMAIN L.blurbs : b < 0 /\ L.blurbs[b].Row > 0

\* the spans [Left, Right] of a and b have a point in common
Overlap(bl, a, b) == Left(bl, a) <= Right(bl, b) /\ Left(bl, b) <= Right(bl, a)

\* a and b are different Blurbs of one row with the same non-nil Parent
Siblings(bl, a, b) ==
  /\ a # b
  /\ bl[a].Row = bl[b].Row
  /\ bl[a].Parent # Nil
  /\ bl[a].Parent = bl[b].Parent

(***************************************************************************)
(* C13.  In every returned layout no two Blurbs of one row that have the   *)
(* same non-nil Parent have overlapping spans [Left, Right].               *)
(***************************************************************************)
C13_SiblingsApart ==
  \A L \in Returned :
    \A a, b \in DOMAIN L.blurbs :
      Siblings(L.blurbs, a, b) => ~Overlap(L.blurbs, a, b)

\* a returned layout whose last row holds siblings and was shifted to the right
C13_Witness ==
  \E L \in Returned :
    LET last == L.rows[Len(L.rows)]
    IN /\ \E a, b \in Range(last) : Siblings(L.blurbs, a, b)
       /\ Left(L.blurbs, last[1]) > 0

\* p has exactly one family, which has no partner and exactly one child
OnlyChildNoPartner(p) ==
  /\ Len(chart.persons[p].Families) = 1
  /\ chart.persons[p].Families[1].Other = 0
  /\ Len(chart.persons[p].Families[1].Children) = 1

(***************************************************************************)
(* C14.  In every returned layout a person with exactly one family, no     *)
(* partner and exactly one child has the same horizontal centre X() as     *)
(* that child.                                                             *)
(***************************************************************************)
C14_CentredOverOnlyChild ==
  \A L \in Returned :
    \A p \in Persons :
      OnlyChildNoPartner(p) =>
        X(L.blurbs, IdOf(p))
          = X(L.blurbs, IdOf(chart.persons[p].Families[1].Children[1]))

\* such a person that is not the first of its row, with its child first in the last
\* row and no longer at the left edge where that row was spread from
C14_Witness ==
  \E L \in Returned :
    \E p \in Persons :
      /\ OnlyChildNoPartner(p)
      /\ L.rows[L.blurbs[IdOf(p)].Row + 1][1] # IdOf(p)
      /\ L.rows[Len(L.rows)][1] = IdOf(chart.persons[p].Families[1].Children[1])
      /\ Left(L.blurbs, IdOf(chart.persons[p].Families[1].Children[1])) > 0

\* the connectors of L that were built for the Blurb b
ConnectorsFor(L, b) == {c \in L.connectors : c.blurb = b}

(***************************************************************************)
(* C15.  In every returned layout the connector list holds exactly one     *)
(* connector for each Blurb with a non-nil Parent, starting above that     *)
(* Blurb's top hook, and none for a Blurb without Parent, so that there    *)
(* are as many connectors as Blurbs with a Parent.                         *)
(***************************************************************************)
C15_OneConnectorPerChild ==
  \A L \in Returned :
    /\ \A b \in DOMAIN L.blurbs :
         Cardinality(ConnectorsFor(L, b)) = IF L.blurbs[b].Parent # Nil THEN 1 ELSE 0
    /\ \A c \in L.connectors :
         /\ c.blurb \in DOMAIN L.blurbs
         /\ c.Points[1] = Point(TopHookX(L.blurbs, c.blurb),
                                L.blurbs[c.blurb].TopPos - opts.LineGap)
    /\ Cardinality(L.connectors)
         = Cardinality({b \in DOMAIN L.blurbs : L.blurbs[b].Parent # Nil})

\* a returned layout with a child of a marker, a child of a person, a marker and a
\* partner
C15_Witness ==
  \E L \in Returned :
    /\ \E b \in DOMAIN L.blurbs : L.blurbs[b].Parent # Nil /\ L.blurbs[b].Parent < 0
    /\ \E b \in DOMAIN L.blurbs : L.blurbs[b].Parent # Nil /\ L.blurbs[b].Parent > 0
    /\ L.connectors # {}

\* the families that have a partner
Partnered == {pf \in Families : Family(pf).Other # 0}

\* "=" for the only family of a person, "= (k)" for the k-th of several
MarkerLabel(pf) ==
  IF Len(chart.persons[pf[1]].Families) = 1 THEN <<"=">>
  ELSE <<"=", " ", "(">> \o <<ToString(pf[2])>> \o <<")">>

\* the marker of every family with a partner has the ID minus the partner's, is
\* centred and has no Parent, the partner's Blurb has NoShift and no Parent, and
\* there is no other marker
MarkersOfPartners(L) ==
  /\ \A pf \in Partnered :
       LET rel == -IdOf(Family(pf).Other)
           sp == IdOf(Family(pf).Other)
       IN /\ rel \in DOMAIN L.blurbs /\ sp \in DOMAIN L.blurbs
          /\ L.blurbs[rel].CentreText
          /\ L.blurbs[rel].Parent = Nil
          /\ L.blurbs[sp].NoShift
          /\ L.blurbs[sp].Parent = Nil
  /\ {b \in DOMAIN L.blurbs : b < 0} = {-IdOf(Family(pf).Other) : pf \in Partnered}
  /\ Cardinality({b \in DOMAIN L.blurbs : b < 0}) = Cardinality(Partnered)

(***************************************************************************)
(* C16, as stated.  In every layout each family with a partner has one     *)
(* marker Blurb, with the ID minus the partner's, CentreText and no        *)
(* Parent, whose first text line is "=" or, for a person with several      *)
(* families, "= (k)"; the partner's Blurb has NoShift and no Parent; a     *)
(* family without partner has no marker.                                   *)
(***************************************************************************)
C16_MarkerFirstLineIsLabel ==
  \A L \in Built :
    /\ MarkersOfPartners(L)
    /\ \A pf \in Partnered :
         L.blurbs[-IdOf(Family(pf).Other)].HeadingTexts = <<MarkerLabel(pf)>>

(***************************************************************************)
(* C16, amended.  The same, with the first text line of the marker being   *)
(* the label only if the label is not wider than DetailWrapWidth in the    *)
(* detail font; a wider label is wrapped like any detail text, its first   *)
(* line is "=" and "(k)" is the next line.                                 *)
(***************************************************************************)
C16_MarkerPerPartner ==
  \A L \in Built :
    /\ MarkersOfPartners(L)
    /\ \A pf \in Partnered :
         LET rel == L.blurbs[-IdOf(Family(pf).Other)]
         IN IF textWidth(MarkerLabel(pf), opts.DetailStyle.FontSize) <= opts.DetailWrapWidth
            THEN rel.HeadingTexts = <<MarkerLabel(pf)>> /\ rel.DetailTexts = <<>>
            ELSE /\ rel.HeadingTexts = <<<<"=">>>>
                 /\ rel.DetailTexts = <<SubSeq(MarkerLabel(pf), 3, 5)>>

\* a returned layout of a person with two partners and a child without partner
C16_Witness ==
  \E L \in Returned :
    /\ \E pf \in Partnered :
         pf[2] = 2 /\ L.blurbs[-IdOf(Family(pf).Other)].HeadingTexts = <<MarkerLabel(pf)>>
    /\ \E b \in DOMAIN L.blurbs : L.blurbs[b].Parent # Nil

\* the ID of the Blurb that is the centre reference of the family pf
CentreRef(pf) ==
  IF Family(pf).Other # 0 THEN -IdOf(Family(pf).Other) ELSE IdOf(pf[1])

(***************************************************************************)
(* C17.  In every layout the Parent of the Blurb of each child is the      *)
(* centre reference of the family that lists the child: the family's       *)
(* marker if the family has a partner, else the Blurb of the person that   *)
(* has the family.  The Blurb of the root has no Parent.                   *)
(***************************************************************************)
C17_ParentIsCentre ==
  \A L \in Built :
    /\ \A pf \in Families :
         \A c \in Range(Family(pf).Children) :
           L.blurbs[IdOf(c)].Parent = CentreRef(pf)
    /\ L.blurbs[IdOf(chart.Root)].Parent = Nil

\* a layout of a root with a partner and a child, the child having a child of its own
C17_Witness ==
  \E L \in Built :
    /\ \E pf \in Partnered : pf[1] = chart.Root /\ Family(pf).Children # <<>>
    /\ \E pf \in Families \ Partnered : Family(pf).Children # <<>>

(***************************************************************************)
(* C18.  In every layout the KeepWith lists are symmetric around each      *)
(* family: the person and the marker of a family with a partner list each  *)
(* other, the marker and the partner list each other, and every child and  *)
(* the centre reference of its family list each other.                     *)
(***************************************************************************)
C18_KeepWithSymmetric ==
  \A L \in Built :
    LET KeepsWith(a, b) == b \in Range(L.blurbs[a].KeepWith)
    IN /\ \A pf \in Partnered :
            /\ KeepsWith(IdOf(pf[1]), CentreRef(pf))
            /\ KeepsWith(CentreRef(pf), IdOf(pf[1]))
            /\ KeepsWith(CentreRef(pf), IdOf(Family(pf).Other))
            /\ KeepsWith(IdOf(Family(pf).Other), CentreRef(pf))
       /\ \A pf \in Families :
            \A c \in Range(Family(pf).Children) :
              /\ KeepsWith(IdOf(c), CentreRef(pf))
              /\ KeepsWith(CentreRef(pf), IdOf(c))

\* a layout with a marker that lists the person, the partner and a child, and with a
\* grandchild in a family without partner
C18_Witness ==
  \E L \in Built :
    /\ \E pf \in Partnered : Len(L.blurbs[CentreRef(pf)].KeepWith) = 3
    /\ \E pf \in Families \ Partnered :
         /\ Family(pf).Children # <<>>
         /\ L.blurbs[IdOf(pf[1])].KeepWith # <<>>

\* the addresses of the Blurbs of the layout L
Addrs(L) == {L.blurbs[b].addr : b \in DOMAIN L.blurbs}

\* the layouts L1 and L2 differ in nothing but the addresses of their Blurbs
SameLayout(L1, L2) ==
  /\ L1.width = L2.width /\ L1.height = L2.height
  /\ L1.rows = L2.rows
  /\ DOMAIN L1.blurbs = DOMAIN L2.blurbs
  /\ \A b \in DOMAIN L1.blurbs :
       [L1.blurbs[b] EXCEPT !.addr = 0] = [L2.blurbs[b] EXCEPT !.addr = 0]
  /\ L1.connectors = L2.connectors

\* the calls of Layout on the chart return the same layout, of Blurbs of their own
C19_SameLayoutOwnBlurbs ==
  \A i, j \in 1..Len(layouts) :
    (pc = "Layout" /\ i # j) =>
      /\ SameLayout(layouts[i], layouts[j])
      /\ Addrs(layouts[i]) \cap Addrs(layouts[j]) = {}
      /\ Cardinality(Addrs(layouts[i])) = Cardinality(DOMAIN layouts[i].blurbs)

\* no step of Layout changes the chart or the options
C19_ChartUnchanged == chart' = chart /\ opts' = opts

C20_RowInOrderApart ==
  \A L \in Returned :
    \A r \in 1..Len(L.rows) :
      /\ \A i, j \in 1..Len(L.rows[r]) :
           i # j => ~Overlap(L.blurbs, L.rows[r][i], L.rows[r][j])
      /\ \A i \in 1..(Len(L.rows[r]) - 1) :
           Left(L.blurbs, L.rows[r][i + 1])
             >= Right(L.blurbs, L.rows[r][i]) + opts.Hspace


\* the children of all families of p, in family order
RECURSIVE ChildrenFrom(_, _)
ChildrenFrom(p, fi) ==
  IF fi > Len(chart.persons[p].Families) THEN <<>>
  ELSE chart.persons[p].Families[fi].Children \o ChildrenFrom(p, fi + 1)

AllChildren(p) == ChildrenFrom(p, 1)

Abs(n) == IF n < 0 THEN -n ELSE n

(***************************************************************************)
(* C21.  In every returned layout each person with children has its        *)
(* centre X() at the midpoint of the span from the left edge of the first  *)
(* child to the right edge of the last child, the children taken over all  *)
(* families of the person, up to 1 unit of integer halving.                *)
(***************************************************************************)
C21_CentredOverAllChildren ==
  \A L \in Returned :
    \A p \in Persons :
      AllChildren(p) # <<>> =>
        LET kids == AllChildren(p)
            lo == Left(L.blurbs, IdOf(kids[1]))
            hi == Right(L.blurbs, IdOf(kids[Len(kids)]))
        IN Abs(2 * X(L.blurbs, IdOf(p)) - (lo + hi)) <= 2

(***************************************************************************)
(* C22.  In every returned layout the bounding box of the Blurbs, widened  *)
(* by Margin on every side and by the height of the title and notes at the *)
(* top, starts at (0,0): the smallest Left is Margin, the smallest TopPos  *)
(* is Margin plus the title height, every Blurb lies inside the margins,   *)
(* and width and height are the extent of the box.                         *)
(***************************************************************************)
C22_BoundingBoxAtOrigin ==
  \A L \in Returned :
    LET bl == L.blurbs
        ids == DOMAIN bl
        th == titleDimensionsHeight(L.title, L.notes, opts.TitleStyle, opts.NoteStyle)
        minL == SetMin({Left(bl, b) : b \in ids})
        maxR == SetMax({Right(bl, b) : b \in ids})
        minT == SetMin({bl[b].TopPos : b \in ids})
        maxB == SetMax({Bottom(bl, b) : b \in ids})
    IN /\ minL = opts.Margin
       /\ minT = opts.Margin + th
       /\ \A b \in ids :
            /\ opts.Margin <= Left(bl, b)
            /\ Right(bl, b) <= L.width - opts.Margin
            /\ Bottom(bl, b) <= L.height - opts.Margin
       /\ L.width = (maxR - minL) + 2 * opts.Margin
       /\ L.height = (maxB - minT) + 2 * opts.Margin + th

\* the vertical polyline of two points from above b to below its Parent
TwoPoints(bl, b) ==
  <<Point(TopHookX(bl, b), bl[b].TopPos - opts.LineGap),
    Point(TopHookX(bl, b), Bottom(bl, bl[b].Parent) + opts.LineGap)>>

\* the polyline of four points from above b, up by ChildDrop, across to the centre
\* of its Parent and up to the Parent's bottom edge
FourPoints(bl, b) ==
  <<Point(TopHookX(bl, b), bl[b].TopPos - opts.LineGap),
    Point(TopHookX(bl, b), bl[b].TopPos - opts.LineGap - opts.ChildDrop),
    Point(X(bl, bl[b].Parent), bl[b].TopPos - opts.LineGap - opts.ChildDrop),
    Point(X(bl, bl[b].Parent), Bottom(bl, bl[b].Parent) + opts.LineGap)>>

\* the Blurbs of the layout whose Parent is m
ChildrenOf(bl, m) == {c \in DOMAIN bl : bl[c].Parent = m}

(***************************************************************************)
(* C23 as stated.  In every returned layout the connector of a Blurb is    *)
(* the polyline of two points exactly when its Parent is a relationship    *)
(* marker with a single child, and the polyline of four points otherwise.  *)
(***************************************************************************)
C23_TwoPointsUnderSingleChildMarker ==
  \A L \in Returned :
    \A b \in DOMAIN L.blurbs :
      L.blurbs[b].Parent # Nil =>
        \A c \in ConnectorsFor(L, b) :
          c.Points = IF /\ L.blurbs[b].Parent < 0
                        /\ Cardinality(ChildrenOf(L.blurbs, L.blurbs[b].Parent)) = 1
                     THEN TwoPoints(L.blurbs, b)
                     ELSE FourPoints(L.blurbs, b)

(***************************************************************************)
(* C23.  In every returned layout the connector of a Blurb is the polyline *)
(* of two points exactly when its Parent is the Blurb of a person (not a   *)
(* relationship marker) whose recorded FirstChild and LastChild are the    *)
(* same Blurb, and the polyline of four points otherwise; under a marker   *)
(* it always has four points.                                              *)
(***************************************************************************)
C23_TwoPointsUnderSingleChildPerson ==
  \A L \in Returned :
    \A b \in DOMAIN L.blurbs :
      L.blurbs[b].Parent # Nil =>
        /\ ConnectorsFor(L, b) # {}
        /\ \A c \in ConnectorsFor(L, b) :
             c.Points = IF /\ L.blurbs[b].Parent > 0
                           /\ L.blurbs[L.blurbs[b].Parent].FirstChild
                                = L.blurbs[L.blurbs[b].Parent].LastChild
                        THEN TwoPoints(L.blurbs, b)
                        ELSE FourPoints(L.blurbs, b)

\* a returned layout with the only child of a marker, the only child of a person
\* without partner, and a person without partner with two children
C23_Witness ==
  \E L \in Returned :
    /\ \E b \in DOMAIN L.blurbs :
         /\ L.blurbs[b].Parent # Nil /\ L.blurbs[b].Parent < 0
         /\ Cardinality(ChildrenOf(L.blurbs, L.blurbs[b].Parent)) = 1
         /\ \E c \in ConnectorsFor(L, b) : Len(c.Points) = 4
    /\ \E b \in DOMAIN L.blurbs :
         /\ L.blurbs[b].Parent # Nil /\ L.blurbs[b].Parent > 0
         /\ \E c \in ConnectorsFor(L, b) : Len(c.Points) = 2

\* the layouts whose rows have been spread vertically: the returned ones and the one
\* that "spread rows vertically" has just worked on
Spread == Returned \cup (IF pc = "lastRow" THEN {l} ELSE {})

\* the largest Height of the Blurbs of the row bs
TallestIn(bl, bs) == SetMax({bl[bs[i]].Height : i \in 1..Len(bs)})

(***************************************************************************)
(* C24.  Once the rows are spread, and in every returned layout, all       *)
(* Blurbs of a row have AbsolutePositioning set and the same TopPos, the   *)
(* top of row r+1 is the top of row r plus the largest Height in row r     *)
(* plus generationDrop = LineWidth + 2*LineGap + ChildDrop + FamilyDrop,   *)
(* Blurbs of different rows do not overlap vertically, and the top of a    *)
(* Blurb with a Parent is at least generationDrop below the Parent's       *)
(* bottom edge.                                                            *)
(***************************************************************************)
C24_RowsStacked ==
  \A L \in Spread :
    LET bl == L.blurbs
        drop == opts.LineWidth + 2 * opts.LineGap + opts.ChildDrop + opts.FamilyDrop
    IN /\ L.generationDrop = drop
       /\ \A r \in 1..Len(L.rows) :
            /\ L.rows[r] # <<>>
            /\ \A i \in 1..Len(L.rows[r]) :
                 /\ bl[L.rows[r][i]].AbsolutePositioning
                 /\ bl[L.rows[r][i]].TopPos = bl[L.rows[r][1]].TopPos
       /\ \A r \in 1..(Len(L.rows) - 1) :
            bl[L.rows[r + 1][1]].TopPos
              = bl[L.rows[r][1]].TopPos + TallestIn(bl, L.rows[r]) + drop
       /\ \A a, b \in DOMAIN bl :
            bl[a].Row < bl[b].Row => Bottom(bl, a) < bl[b].TopPos
       /\ \A b \in DOMAIN bl :
            bl[b].Parent # Nil => bl[b].TopPos >= Bottom(bl, bl[b].Parent) + drop

\* a returned layout with a row whose tallest Blurb is not its first and a Blurb
\* with a Parent in the row below it
C24_Witness ==
  \E L \in Returned :
    /\ Len(L.rows) > 1
    /\ TallestIn(L.blurbs, L.rows[1]) > L.blurbs[L.rows[1][1]].Height
    /\ \E b \in DOMAIN L.blurbs : L.blurbs[b].Parent # Nil

\* the layout whose deepest row has just been spread, before any row above it is
\* arranged
LastRowSpread ==
  IF \/ pc = "arrangeRows" /\ l.row = Len(l.rows) - 2
     \/ pc = "return" /\ Len(l.rows) = 1
  THEN {l} ELSE {}

\* the deepest row starts at Left 0 and each later Blurb stands same to the right of
\* its predecessor's right edge when their Parents are equal, and other when not
LastRowGaps(L, same, other) ==
  LET bl == L.blurbs
      bs == L.rows[Len(L.rows)]
  IN /\ Left(bl, bs[1]) = 0
     /\ \A i \in 2..Len(bs) :
          Left(bl, bs[i]) = Right(bl, bs[i - 1])
                              + (IF bl[bs[i]].Parent = bl[bs[i - 1]].Parent
                                 THEN same ELSE other)

(***************************************************************************)
(* C25 as stated.  When the deepest row has been spread it starts at Left  *)
(* 0, a Blurb with the Parent of its predecessor is Hspace to the right of *)
(* it, and a Blurb with another Parent is twice Hspace to the right.       *)
(***************************************************************************)
C25_LastRowGapDoubled ==
  \A L \in LastRowSpread : LastRowGaps(L, opts.Hspace, 2 * opts.Hspace)

(***************************************************************************)
(* C25.  When the deepest row has been spread it starts at Left 0, a Blurb *)
(* with the Parent of its predecessor is Hspace to the right of it, and a  *)
(* Blurb with another Parent is three times Hspace to the right (Hspace    *)
(* plus twice Hspace of extra space between families).                     *)
(***************************************************************************)
C25_LastRowGapTripled ==
  \A L \in LastRowSpread : LastRowGaps(L, opts.Hspace, 3 * opts.Hspace)

\* a deepest row that has just been spread and holds neighbours with the same
\* Parent and neighbours with different Parents
C25_Witness ==
  \E L \in LastRowSpread :
    LET bl == L.blurbs
        bs == L.rows[Len(L.rows)]
    IN /\ Len(L.rows) > 1
       /\ \E i \in 2..Len(bs) : bl[bs[i]].Parent = bl[bs[i - 1]].Parent
       /\ \E i \in 2..Len(bs) : bl[bs[i]].Parent # bl[bs[i - 1]].Parent

\* the Blurb that follows b in its row, or Nil
RightNeighbour(L, b) ==
  LET bs == L.rows[L.blurbs[b].Row + 1]
      at == CHOOSE i \in 1..Len(bs) : bs[i] = b
  IN IF at < Len(bs) THEN bs[at + 1] ELSE Nil

\* b has no children and shares a non-nil Parent with the next Blurb of its row
Pullable(L, b) ==
  /\ L.blurbs[b].FirstChild = Nil
  /\ L.blurbs[b].Parent # Nil
  /\ RightNeighbour(L, b) # Nil
  /\ L.blurbs[RightNeighbour(L, b)].Parent = L.blurbs[b].Parent

\* what the step "close up gaps" does to the layout
C26_CloseGapsStep ==
  pc = "closeGaps" =>
    /\ DOMAIN l'.blurbs = DOMAIN l.blurbs
    /\ l'.rows = l.rows
    /\ \A b \in DOMAIN l.blurbs :
         /\ l'.blurbs[b] = [l.blurbs[b] EXCEPT !.LeftPos = l'.blurbs[b].LeftPos]
         /\ l'.blurbs[b].LeftPos >= l.blurbs[b].LeftPos
         /\ ~Pullable(l, b) => l'.blurbs[b].LeftPos = l.blurbs[b].LeftPos
         /\ Pullable(l, b) =>
              Left(l'.blurbs, RightNeighbour(l, b)) - Right(l'.blurbs, b) = opts.Hspace

(***************************************************************************)
(* C26.  The compaction step of Arrange changes nothing but LeftPos, never *)
(* lowers a LeftPos, and moves only Blurbs that have no children and share *)
(* a non-nil Parent with the next Blurb of their row; after it every such  *)
(* Blurb is exactly Hspace left of that neighbour, and Blurbs with         *)
(* children and Blurbs next to another family are where they were.         *)
(***************************************************************************)
C26_CompactionPullsChildlessSiblings == [][C26_CloseGapsStep]_vars

\* a layout after compaction in which the childless first child of a person stands
\* Hspace left of its sibling and right of where the person was centred over it
C26_Witness ==
  /\ pc = "centreBlurbs"
  /\ \E b \in DOMAIN l.blurbs :
       /\ Pullable(l, b)
       /\ l.blurbs[b].Parent > 0
       /\ l.blurbs[l.blurbs[b].Parent].FirstChild = b
       /\ Left(l.blurbs, RightNeighbour(l, b)) - Right(l.blurbs, b) = opts.Hspace
       /\ 2 * X(l.blurbs, l.blurbs[b].Parent) + 2
            < Left(l.blurbs, b) + Right(l.blurbs, l.blurbs[l.blurbs[b].Parent].LastChild)

RECURSIVE PreOrder(_)
RECURSIVE PreOrderFamilies(_, _)
RECURSIVE PreOrderChildren(_)

\* the ids met by the walk over the children cs, in order
PreOrderChildren(cs) ==
  IF cs = <<>> THEN <<>> ELSE PreOrder(cs[1]) \o PreOrderChildren(Tail(cs))

\* the ids met in the families of p from the fi-th on: the partner, then the children
PreOrderFamilies(p, fi) ==
  IF fi > Len(persons[p].Families) THEN <<>>
  ELSE (IF persons[p].Families[fi].Other # 0
        THEN PreOrder(persons[p].Families[fi].Other) ELSE <<>>)
       \o PreOrderChildren(persons[p].Families[fi].Children)
       \o PreOrderFamilies(p, fi + 1)

\* the ids met by the depth-first walk from the person p; nothing for no person
PreOrder(p) ==
  IF p = 0 THEN <<>> ELSE <<persons[p].ID>> \o PreOrderFamilies(p, 1)

\* the number of places of the chart that hold the person c: as the root, as the
\* partner of a family, as a child of a family
Places(c) ==
  (IF Root = c THEN 1 ELSE 0)
  + Cardinality({pf \in People \X People :
                   /\ pf[2] <= Len(persons[pf[1]].Families)
                   /\ persons[pf[1]].Families[pf[2]].Other = c})
  + Cardinality({pfi \in People \X People \X People :
                   /\ pfi[2] <= Len(persons[pfi[1]].Families)
                   /\ pfi[3] <= Len(persons[pfi[1]].Families[pfi[2]].Children)
                   /\ persons[pfi[1]].Families[pfi[2]].Children[pfi[3]] = c})

C28_ExpectedIsTopPlusOne ==
  (pc = "done" /\ ret.err.kind = "expected person with generation number") =>
    /\ ret.err.line = entries[idx].lineno
    /\ ret.err.expected = entries[Top(ppl)].generation + 1
    /\ ret.err.got = entries[idx].generation

(***************************************************************************)
(* IteratedDescendantArranger.Arrange on the layout that Layout's tree     *)
(* walk has built.  The Blurbs keep relative positioning here.  The        *)
(* functions distance and rightDistance that fitness adds up are not part  *)
(* of the source files, so whether a proposal is kept or undone is left    *)
(* open; prand's draws are choices.                                        *)
(***************************************************************************)
\* largest number of persons of a chart given to the iterated arranger
MaxIteratedPersons == 3

\* largest LayoutOptions.Iterations
MaxIterations == 2

\* values of LayoutOptions.Hspace
HspaceValues == {1, 3}

IteratedOptions ==
  {[NarrowLayoutOptions EXCEPT !.Hspace = h, !.Iterations = n] :
     h \in HspaceValues, n \in 0..MaxIterations}

IteratedCharts ==
  [Title : Titles, Notes : {<<>>}, Root : {1},
   persons : UNION {Trees(n) : n \in 1..MaxIteratedPersons}]

\* align, "spread rows evenly": the loop over one row, from i on
padIfOtherFamily(bl, b, prev) ==
  IF /\ bl[b].ID > 0
     /\ (bl[b].Parent # Nil \/ bl[prev].Parent # Nil)
     /\ bl[b].Parent # bl[prev].Parent
  THEN keepRightOfIf([bl EXCEPT ![b].LeftPad = @ + opts.Hspace * 2],
                     bl[prev].Parent # Nil, b, bl[prev].Parent)
  ELSE bl

RECURSIVE alignSpreadRow(_, _, _, _)
alignSpreadRow(bl, bs, i, top) ==
  IF i >= Len(bs) THEN bl
  ELSE IF i = 0
       THEN alignSpreadRow([bl EXCEPT ![bs[1]].TopPos = top], bs, 1, top)
       ELSE alignSpreadRow(
              padIfOtherFamily([bl EXCEPT ![bs[i + 1]].TopPos = top,
                                          ![bs[i + 1]].LeftPad = opts.Hspace,
                                          ![bs[i + 1]].LeftNeighbour = bs[i]],
                               bs[i + 1], bs[i]),
              bs, i + 1, top)

\* the outer loop "for _, bs := range l.rows", from row on
RECURSIVE alignSpreadRows(_, _, _, _, _)
alignSpreadRows(bl, rows, row, top, generationDrop) ==
  IF row >= Len(rows) THEN bl
  ELSE alignSpreadRows(alignSpreadRow(bl, rows[row + 1], 0, top), rows, row + 1,
                       top + rowHeight(bl, rows[row + 1]) + generationDrop, generationDrop)

\* "if !bs[i].NoShift && bs[i].LeftStop != nil && bs[i].LeftStop.X() > bs[i].X()"
alignToLeftStop(bl, b) ==
  IF ~bl[b].NoShift /\ bl[b].LeftStop # Nil /\ X(bl, bl[b].LeftStop) > X(bl, b)
  THEN [bl EXCEPT ![b].LeftShift = @ + X(bl, bl[b].LeftStop) - X(bl, b)]
  ELSE bl

\* "if bs[i].RightStop != nil && bs[i].X() > bs[i].RightStop.X()"
alignRightStop(bl, b) ==
  IF bl[b].RightStop # Nil /\ X(bl, b) > X(bl, bl[b].RightStop)
  THEN [bl EXCEPT ![bl[b].RightStop].LeftShift = @ + X(bl, b) - X(bl, bl[b].RightStop)]
  ELSE bl

\* "get parents roughly aligned over their children": the loop over one row, from i on
RECURSIVE alignRow(_, _, _)
alignRow(bl, bs, i) ==
  IF i >= Len(bs) THEN bl
  ELSE alignRow(alignRightStop(alignToLeftStop(bl, bs[i + 1]), bs[i + 1]), bs, i + 1)

\* the values of Pixel((0.5 - prand.Float64()*prand.Float64()) * float64(hspace)):
\* the product is in [0, 1) and the conversion cuts the fraction off
Deltas(hspace) == (-Max(0, ((hspace + 1) \div 2) - 1)) .. (hspace \div 2)

\* the condition of jiggle's second loop: the perturbation d is drawn again
Redraw(bl, b, d) ==
  \/ d = 0
  \/ bl[b].LeftShift + d < 0
  \/ /\ bl[b].LeftStop # Nil
     /\ X(bl, b) > X(bl, bl[b].LeftStop)
     /\ X(bl, b) + d < X(bl, bl[b].LeftStop)
  \/ /\ bl[b].RightStop # Nil
     /\ X(bl, b) < X(bl, bl[b].RightStop)
     /\ X(bl, b) + d > X(bl, bl[b].RightStop)

\* the connector that reflow makes for the Blurb b, which has a Parent
IteratedConnector(bl, b) ==
  [blurb |-> b,
   Points |-> <<Point(TopHookX(bl, b), bl[b].TopPos - opts.LineGap),
                Point(TopHookX(bl, b), bl[b].TopPos - opts.LineGap - opts.ChildDrop),
                Point(X(bl, bl[b].Parent), bl[b].TopPos - opts.LineGap - opts.ChildDrop),
                Point(X(bl, bl[b].Parent), Bottom(bl, bl[b].Parent) + opts.LineGap)>>]

InitIterated ==
  /\ chart \in IteratedCharts
  /\ opts \in IteratedOptions
  /\ pc = "Iterated"
  /\ l = <<>>
  /\ heap = 0
  /\ layouts = <<>>
  /\ arranger = <<>>
  /\ SurnameSeparateLine = FALSE
  /\ lineno = 0
  /\ entries = <<>>
  /\ cur = 0
  /\ persons = <<>>
  /\ idx = 0
  /\ ppl = <<>>
  /\ Root = 0
  /\ ret = NotReturned
  /\ text = <<>>
  /\ parsed = NotParsed
  /\ input = <<>>

\* the layout as Layout builds it up to "l.addPerson(ch.Root, 0, nil)"
IteratedAddPerson ==
  /\ pc = "Iterated"
  /\ LET L == addPerson([blurbs |-> <<>>, rows |-> <<>>, heap |-> heap], chart.Root, 0, Nil)
     IN /\ l' = [title |-> chart.Title, notes |-> chart.Notes, width |-> 0, height |-> 0,
                 generationDrop |-> opts.LineWidth + opts.LineGap + opts.LineGap
                                     + opts.ChildDrop + opts.FamilyDrop,
                 blurbs |-> L.blurbs, connectors |-> {}, rows |-> L.rows, row |-> 0]
        /\ heap' = L.heap
  /\ pc' = "align"
  /\ arranger' = [iter |-> 0, i |-> 0, b |-> Nil, savedShift |-> 0, delta |-> 0]
  /\ UNCHANGED <<chart, opts, layouts>>
  /\ UNCHANGED parserVars

\* align: "spread rows evenly"
AlignSpreadRows ==
  /\ pc = "align"
  /\ l' = [l EXCEPT !.blurbs = alignSpreadRows(@, l.rows, 0, 0, l.generationDrop),
                    !.row = Len(l.rows) - 1]
  /\ pc' = "alignRows"
  /\ UNCHANGED <<chart, opts, heap, layouts, arranger>>
  /\ UNCHANGED parserVars

\* align: one iteration of "for r := len(l.rows) - 1; r >= 0; r--" within
\* "for iter := 0; iter < 3; iter++"
AlignRow ==
  /\ pc = "alignRows"
  /\ l' = [l EXCEPT !.blurbs = alignRow(@, l.rows[l.row + 1], 0),
                    !.row = IF l.row = 0 THEN Len(l.rows) - 1 ELSE @ - 1]
  /\ arranger' = [arranger EXCEPT !.iter = IF l.row = 0 THEN @ + 1 ELSE @]
  /\ pc' = IF l.row = 0 /\ arranger.iter = 2 THEN "reflow" ELSE pc
  /\ UNCHANGED <<chart, opts, heap, layouts>>
  /\ UNCHANGED parserVars

\* reflow: "for i := 0; i < l.opts.Iterations; i++", entering the body or leaving
ReflowLoop ==
  /\ pc = "reflow"
  /\ pc' = IF arranger.i < opts.Iterations THEN "pick" ELSE "centre"
  /\ arranger' = [arranger EXCEPT !.b = Nil, !.delta = 0]
  /\ UNCHANGED <<chart, opts, l, heap, layouts>>
  /\ UNCHANGED parserVars

\* jiggle: one pass of "for b == nil || b.NoShift" that picks a NoShift Blurb
JigglePickAgain ==
  /\ pc = "pick"
  /\ \E row \in 1..Len(l.rows) : \E n \in 1..Len(l.rows[row]) :
       /\ l.blurbs[l.rows[row][n]].NoShift
       /\ arranger' = [arranger EXCEPT !.b = l.rows[row][n]]
  /\ UNCHANGED <<pc, chart, opts, l, heap, layouts>>
  /\ UNCHANGED parserVars

\* JigglePick that takes whatever Blurb is drawn, NoShift or not
JigglePickAnyBlurb ==
  /\ pc = "pick"
  /\ \E row \in 1..Len(l.rows) : \E n \in 1..Len(l.rows[row]) :
       arranger' = [arranger EXCEPT !.b = l.rows[row][n],
                                    !.savedShift = l.blurbs[l.rows[row][n]].LeftShift]
  /\ pc' = "delta"
  /\ UNCHANGED <<chart, opts, l, heap, layouts>>
  /\ UNCHANGED parserVars

\* jiggle: the pass that picks a Blurb that may shift, and "savedShift := b.LeftShift"
JigglePick ==
  /\ pc = "pick"
  /\ \E row \in 1..Len(l.rows) : \E n \in 1..Len(l.rows[row]) :
       /\ ~l.blurbs[l.rows[row][n]].NoShift
       /\ arranger' = [arranger EXCEPT !.b = l.rows[row][n],
                                       !.savedShift = l.blurbs[l.rows[row][n]].LeftShift]
  /\ pc' = "delta"
  /\ UNCHANGED <<chart, opts, l, heap, layouts>>
  /\ UNCHANGED parserVars

\* jiggle: one pass of the loop over delta that draws a value it will not take
JiggleDrawAgain ==
  /\ pc = "delta"
  /\ \E d \in Deltas(opts.Hspace) :
       /\ Redraw(l.blurbs, arranger.b, d)
       /\ arranger' = [arranger EXCEPT !.delta = d]
  /\ UNCHANGED <<pc, chart, opts, l, heap, layouts>>
  /\ UNCHANGED parserVars

\* jiggle: the draw that ends the loop, and "b.LeftShift += delta"
JiggleShift ==
  /\ pc = "delta"
  /\ \E d \in Deltas(opts.Hspace) :
       /\ ~Redraw(l.blurbs, arranger.b, d)
       /\ arranger' = [arranger EXCEPT !.delta = d]
       /\ l' = [l EXCEPT !.blurbs[arranger.b].LeftShift = @ + d]
  /\ pc' = "decide"
  /\ UNCHANGED <<chart, opts, heap, layouts>>
  /\ UNCHANGED parserVars

\* reflow: "continue", the proposal is kept
ReflowKeep ==
  /\ pc = "decide"
  /\ arranger' = [arranger EXCEPT !.i = @ + 1]
  /\ pc' = "reflow"
  /\ UNCHANGED <<chart, opts, l, heap, layouts>>
  /\ UNCHANGED parserVars

\* reflow: "undo()", that is "b.LeftShift = savedShift"
ReflowUndo ==
  /\ pc = "decide"
  /\ l' = [l EXCEPT !.blurbs[arranger.b].LeftShift = arranger.savedShift]
  /\ arranger' = [arranger EXCEPT !.i = @ + 1]
  /\ pc' = "reflow"
  /\ UNCHANGED <<chart, opts, heap, layouts>>
  /\ UNCHANGED parserVars

\* reflow: "a.centreBlurbs(l)" and the connectors; Arrange returns
ReflowFinish ==
  /\ pc = "centre"
  /\ l' = [centreBlurbs(l) EXCEPT
             !.connectors = {IteratedConnector(l.blurbs, b) :
                               b \in {c \in DOMAIN l.blurbs : l.blurbs[c].Parent # Nil}}]
  /\ pc' = "arranged"
  /\ UNCHANGED <<chart, opts, heap, layouts, arranger>>
  /\ UNCHANGED parserVars

NextIterated ==
  \/ IteratedAddPerson
  \/ AlignSpreadRows
  \/ AlignRow
  \/ ReflowLoop
  \/ JigglePickAgain
  \/ JigglePick
  \/ JiggleDrawAgain
  \/ JiggleShift
  \/ ReflowKeep
  \/ ReflowUndo
  \/ ReflowFinish

SpecIterated == InitIterated /\ [][NextIterated]_vars

\* Arrange has returned after Iterations proposals, with the size of the drawing and
\* a connector for every Blurb that has a Parent
ArrangedComplete ==
  /\ pc = "arranged"
  /\ arranger.i = opts.Iterations
  /\ l.width > 0 /\ l.height > 0
  /\ \A b \in DOMAIN l.blurbs :
       l.blurbs[b].Parent # Nil => \E c \in l.connectors : c.blurb = b

(***************************************************************************)
(* C29.  IteratedDescendantArranger.Arrange comes to an end for every      *)
(* layout and every Iterations >= 0, also for a small Hspace and for       *)
(* Blurbs whose shift is 0: whenever jiggle is in one of its two loops,    *)
(* some draw of prand ends the loop (a draw that does not end it changes   *)
(* nothing that the loop's condition reads, so that a loop which no draw   *)
(* can end runs for ever), and when Arrange has returned it has made       *)
(* exactly Iterations proposals and left a complete layout.                *)
(***************************************************************************)
C29_JiggleLoopsCanEnd ==
  /\ pc = "pick" =>
       \E row \in 1..Len(l.rows) : \E n \in 1..Len(l.rows[row]) :
         ~l.blurbs[l.rows[row][n]].NoShift
  /\ pc = "delta" =>
       \E d \in Deltas(opts.Hspace) : ~Redraw(l.blurbs, arranger.b, d)
  /\ pc = "arranged" => ArrangedComplete

\* the iterated arranger is at work on l or has returned
Arranging ==
  pc \in {"align", "alignRows", "reflow", "pick", "delta", "decide", "centre", "arranged"}

\* every LeftShift is non-negative and that of a NoShift Blurb is 0
ShiftsInRange(bl) ==
  \A b \in DOMAIN bl :
    /\ bl[b].LeftShift >= 0
    /\ bl[b].NoShift => bl[b].LeftShift = 0

\* what a step of reflow's loop does to the shifts
C30_ProposalStep ==
  /\ (pc = "pick" /\ pc' = "delta") =>
       /\ ~l.blurbs[arranger'.b].NoShift
       /\ arranger'.savedShift = l.blurbs[arranger'.b].LeftShift
  /\ (pc = "delta" /\ pc' = "decide") =>
       /\ arranger'.delta # 0
       /\ l'.blurbs = [l.blurbs EXCEPT ![arranger.b].LeftShift = @ + arranger'.delta]
       /\ arranger'.savedShift = l.blurbs[arranger.b].LeftShift
  /\ (pc = "decide" /\ l' # l) =>
       /\ l'.blurbs = [l.blurbs EXCEPT ![arranger.b].LeftShift = arranger.savedShift]
       /\ arranger.savedShift = l.blurbs[arranger.b].LeftShift - arranger.delta
  /\ (pc \in {"reflow", "pick", "delta", "decide"} /\ pc' \in {"reflow", "pick", "delta", "decide"}) =>
       Cardinality({b \in DOMAIN l.blurbs : l'.blurbs[b] # l.blurbs[b]}) <= 1

(***************************************************************************)
(* C30.  In every state of align and of reflow each Blurb's LeftShift is   *)
(* non-negative and the LeftShift of every NoShift Blurb is 0; a proposal  *)
(* is made on a Blurb that is not NoShift and changes the LeftShift of     *)
(* that Blurb alone, by a non-zero delta; undoing it gives the Blurb the   *)
(* LeftShift it had before the proposal and changes nothing else.          *)
(***************************************************************************)
C30_ShiftsStayInRange ==
  [](Arranging => ShiftsInRange(l.blurbs)) /\ [][C30_ProposalStep]_vars

\* a proposal with a negative delta on a Blurb that align has shifted is about to be
\* kept or undone, in a layout with a partner
C30_Witness ==
  /\ pc = "decide"
  /\ arranger.delta < 0
  /\ arranger.savedShift > 1
  /\ arranger.i > 0
  /\ \E b \in DOMAIN l.blurbs : l.blurbs[b].NoShift
=============================================================================
